---- MODULE Spec2Model ----
(***************************************************************************)
(* Model of the ping-pong bot: the iteration planner and executor          *)
(* (ping_pong_bot.ts), the exchange store (lib/storage.ts), the chain      *)
(* gateway (lib/ethereum_service.ts) and the run loop with its shutdown    *)
(* hook (index.ts, lib/shutdown.ts).                                       *)
(***************************************************************************)
EXTENDS Integers, Sequences, FiniteSets, TLC

(***************************************************************************)
(* Configuration (lib/config.ts), scaled down, and the bounds of the model *)
(***************************************************************************)
STARTING_BLOCK == 1
CONFIRMATION_BLOCKS == 1
MAX_BLOCKS_BATCH_SIZE == 2
\* the chain grows up to this height
MaxHead == 10

Min(a, b) == IF a < b THEN a ELSE b

(***************************************************************************)
(* types.ts: iterations.  A missing value (undefined) and the planner's    *)
(* null are records of their own so that they compare with any iteration.  *)
(***************************************************************************)
Undefined == [undefined |-> TRUE]
Null == [null |-> TRUE]

IterationStates == {"started", "completed"}

NormalIterations ==
  { [type |-> "normal", state |-> s, fromBlock |-> f, toBlock |-> t] :
      s \in IterationStates, f \in STARTING_BLOCK..MaxHead, t \in STARTING_BLOCK..MaxHead }
RecoveryStartIterations ==
  { [type |-> "recovery_start", state |-> s, toBlock |-> t] :
      s \in IterationStates, t \in (STARTING_BLOCK - 1)..MaxHead }
RecoveryIterations ==
  { [type |-> "recovery", state |-> s, fromBlock |-> f, toBlock |-> t,
     recoveryUntilBlock |-> u] :
      s \in IterationStates, f \in STARTING_BLOCK..MaxHead,
      t \in STARTING_BLOCK..MaxHead, u \in 0..MaxHead }
RecoveryEndIterations ==
  { [type |-> "recovery_end", state |-> s, toBlock |-> t] :
      s \in IterationStates, t \in STARTING_BLOCK..MaxHead }

\* the iterations the planner can have written: a ranged iteration spans
\* between 2 and MAX_BLOCKS_BATCH_SIZE + 1 blocks
Ranged(it) == it.toBlock - it.fromBlock >= 1
              /\ it.toBlock - it.fromBlock <= MAX_BLOCKS_BATCH_SIZE
Iterations ==
  { it \in NormalIterations : Ranged(it) } \cup RecoveryStartIterations
    \cup { it \in RecoveryIterations : Ranged(it) } \cup RecoveryEndIterations

(***************************************************************************)
(* Variants of the planner, each with one of its decisions changed.  The   *)
(* properties of the planner below tell every one of them from             *)
(* planIteration.                                                          *)
(***************************************************************************)
planIterationChanged(previous, currentBlock, change) ==
  IF previous = Undefined
    THEN [type |-> "recovery_start", state |-> "started",
          toBlock |-> IF change = "cold" THEN STARTING_BLOCK
                                         ELSE STARTING_BLOCK - 1]
  ELSE IF previous.state = "started"
    THEN [type |-> "recovery_start", state |-> "started",
          toBlock |-> IF "fromBlock" \in DOMAIN previous /\ change # "aborted"
                        THEN previous.fromBlock - 1
                        ELSE previous.toBlock]
  ELSE IF previous.type = "recovery"
          /\ IF change = "end"
               THEN previous.toBlock > previous.recoveryUntilBlock
               ELSE previous.toBlock >= previous.recoveryUntilBlock
    THEN [type |-> "recovery_end", state |-> "started",
          toBlock |-> IF change = "marker" THEN previous.toBlock + 1
                                           ELSE previous.toBlock]
  ELSE
    LET currentConfirmedBlock ==
          IF change = "confirm" THEN currentBlock
                                ELSE currentBlock - CONFIRMATION_BLOCKS
        fromBlock == previous.toBlock + 1
        toBlock == IF change = "clamp"
                     THEN currentConfirmedBlock
                     ELSE Min(currentConfirmedBlock,
                              fromBlock + MAX_BLOCKS_BATCH_SIZE)
    IN  IF toBlock - fromBlock < (IF change = "skip" THEN 0 ELSE 1) THEN Null
        ELSE IF previous.type = "recovery"
                \/ (previous.type = "recovery_start" /\ change # "type")
          THEN [type |-> "recovery", state |-> "started",
                fromBlock |-> fromBlock, toBlock |-> toBlock,
                recoveryUntilBlock |->
                  IF "recoveryUntilBlock" \in DOMAIN previous /\ change # "until"
                    THEN previous.recoveryUntilBlock
                    ELSE currentBlock]
          ELSE [type |-> "normal", state |-> "started",
                fromBlock |-> fromBlock, toBlock |-> toBlock]

\* a cold start that resumes after STARTING_BLOCK instead of before it
planIterationColdOffByOne(previous, currentBlock) ==
  planIterationChanged(previous, currentBlock, "cold")
\* an aborted range that is taken as processed
planIterationAbortedKept(previous, currentBlock) ==
  planIterationChanged(previous, currentBlock, "aborted")
\* a recovery that ends only after passing recoveryUntilBlock
planIterationLateEnd(previous, currentBlock) ==
  planIterationChanged(previous, currentBlock, "end")
\* a single confirmed block that is planned instead of skipped
planIterationNoSkip(previous, currentBlock) ==
  planIterationChanged(previous, currentBlock, "skip")
\* a batch that is not clamped
planIterationNoClamp(previous, currentBlock) ==
  planIterationChanged(previous, currentBlock, "clamp")
\* a recovery start followed by a normal iteration
planIterationNoRecovery(previous, currentBlock) ==
  planIterationChanged(previous, currentBlock, "type")
\* a recoveryUntilBlock that follows the head
planIterationMovingUntil(previous, currentBlock) ==
  planIterationChanged(previous, currentBlock, "until")
\* a range that reaches the chain head, confirmed or not
planIterationUnconfirmed(previous, currentBlock) ==
  planIterationChanged(previous, currentBlock, "confirm")
\* a RecoveryEnd marker that moves one block on
planIterationMarkerAdvances(previous, currentBlock) ==
  planIterationChanged(previous, currentBlock, "marker")

(***************************************************************************)
(* PingPong.planIteration                                                  *)
(***************************************************************************)
planIteration(previous, currentBlock) ==
  IF previous = Undefined
    THEN [type |-> "recovery_start", state |-> "started",
          toBlock |-> STARTING_BLOCK - 1]
  ELSE IF previous.state = "started"
    THEN [type |-> "recovery_start", state |-> "started",
          toBlock |-> IF "fromBlock" \in DOMAIN previous
                        THEN previous.fromBlock - 1
                        ELSE previous.toBlock]
  ELSE IF previous.type = "recovery"
          /\ previous.toBlock >= previous.recoveryUntilBlock
    THEN [type |-> "recovery_end", state |-> "started",
          toBlock |-> previous.toBlock]
  ELSE
    LET currentConfirmedBlock == currentBlock - CONFIRMATION_BLOCKS
        fromBlock == previous.toBlock + 1
        toBlock == Min(currentConfirmedBlock, fromBlock + MAX_BLOCKS_BATCH_SIZE)
    IN  IF toBlock - fromBlock < 1 THEN Null
        ELSE IF previous.type \in {"recovery", "recovery_start"}
          THEN [type |-> "recovery", state |-> "started",
                fromBlock |-> fromBlock, toBlock |-> toBlock,
                recoveryUntilBlock |->
                  IF "recoveryUntilBlock" \in DOMAIN previous
                    THEN previous.recoveryUntilBlock
                    ELSE currentBlock]
          ELSE [type |-> "normal", state |-> "started",
                fromBlock |-> fromBlock, toBlock |-> toBlock]

(***************************************************************************)
(* types.ts: exchanges, and the records of the store.                      *)
(***************************************************************************)
\* ping transaction hashes are 1..MaxPings
MaxPings == 1
\* pong transactions the wallet sends (their hashes are 1..MaxTxs)
MaxTxs == 3
\* the clock advances up to this time
MaxTime == 2
\* aborted iterations, process kills and store losses, together
MaxFaults == 2
\* transactions the mempool may drop
MaxDrops == 1
STALE_PONG_TIMEOUT_MINUTES == 1

PingHashes == 1..MaxPings
MyAddress == "me"

\* { ...a, ...b }
Spread(a, b) ==
  [k \in DOMAIN a \cup DOMAIN b |-> IF k \in DOMAIN b THEN b[k] ELSE a[k]]

(***************************************************************************)
(* lib/storage.ts.  `ex` is the "exchanges" sublevel: pingHash -> record.  *)
(***************************************************************************)
getExchange(ex, pingHash) == ex[pingHash]

putPingDetected(ex, fields) ==
  LET exchange == Spread(fields, [state |-> "detected"])
  IN  [ex EXCEPT ![exchange.pingHash] = exchange]

putPongIssued(ex, fields, clock) ==
  LET exchange == Spread(Spread([pongTimestamp |-> clock], fields),
                         [state |-> "pong_issued"])
  IN  [ex EXCEPT ![exchange.pingHash] = exchange]

putCompletedExchange(ex, fields) ==
  LET exchange == Spread(fields, [state |-> "completed"])
  IN  [ex EXCEPT ![exchange.pingHash] = exchange]

\* the scans go through the sublevel in key order
IsDetected(e) == e # Undefined /\ e.state = "detected"
IsPongIssued(e) == e # Undefined /\ e.state = "pong_issued"
IsCompleted(e) == e # Undefined /\ e.state = "completed"

getPingDetectedExchanges(ex) == SelectSeq(ex, IsDetected)

\* a scan that takes every PongIssued exchange for a stale one
getPongIssuedExchangesOfAnyAge(ex, clock) == SelectSeq(ex, IsPongIssued)

getStalePongIssuedExchanges(ex, clock) ==
  LET expiredDate == clock - STALE_PONG_TIMEOUT_MINUTES
      IsStale(e) == IsPongIssued(e) /\ e.pongTimestamp <= expiredDate
  IN  SelectSeq(ex, IsStale)

\* removeCompletedExchanges: the list it returns
completedExchanges(ex) == SelectSeq(ex, IsCompleted)

\* a removal that takes the exchanges waiting for their pong as well
removeCompletedExchangesAndIssued(ex) ==
  [h \in DOMAIN ex |->
     IF IsCompleted(ex[h]) \/ IsPongIssued(ex[h]) THEN Undefined ELSE ex[h]]

removeCompletedExchanges(ex) ==
  [h \in DOMAIN ex |-> IF IsCompleted(ex[h]) THEN Undefined ELSE ex[h]]

(***************************************************************************)
(* The chain as the gateway shows it.  `t` is the list of the pong         *)
(* transactions sent to the contract; a transaction's hash is its index.   *)
(* block = 0: in the mempool, block > 0: mined there, block = -1: dropped   *)
(* or replaced.  `pb` gives the block of each Ping (0: not emitted yet).   *)
(***************************************************************************)
TxHashes(t) == 1..Len(t)
IsPending(tx) == tx.block = 0
IsMined(tx) == tx.block > 0

\* the transactions of the wallet already mined
MinedCount(t) == Cardinality({ i \in TxHashes(t) : IsMined(t[i]) })
PendingNonces(t) == { t[i].nonce : i \in { j \in TxHashes(t) : IsPending(t[j]) } }

\* EthereumService.getNonce: the next nonce the wallet will use
getNonce(t) ==
  CHOOSE n \in MinedCount(t)..(MinedCount(t) + Len(t)) :
    /\ n \notin PendingNonces(t)
    /\ \A m \in MinedCount(t)..(n - 1) : m \in PendingNonces(t)

\* the node takes a transaction whose nonce is neither used up nor taken
\* by a transaction of its mempool
NonceAccepted(t, n) == n >= MinedCount(t) /\ n \notin PendingNonces(t)

RECURSIVE LogsIn(_, _, _)
\* the hashes of the transactions mined in fromBlock..toBlock, in chain order
LogsIn(t, fromBlock, toBlock) ==
  IF fromBlock > toBlock THEN <<>>
  ELSE SelectSeq([i \in TxHashes(t) |-> i], LAMBDA i : t[i].block = fromBlock)
         \o LogsIn(t, fromBlock + 1, toBlock)

\* EthereumService.getPongs: the Pong logs of the range
getPongs(t, fromBlock, toBlock) ==
  LET hashes == LogsIn(t, fromBlock, toBlock)
  IN  [k \in 1..Len(hashes) |->
         [transactionHash |-> hashes[k], blockNumber |-> t[hashes[k]].block,
          data |-> t[hashes[k]].ping]]

\* EthereumService.getPings: the Ping logs of the range
getPings(pb, fromBlock, toBlock) ==
  LET InRange(h) == pb[h] >= fromBlock /\ pb[h] <= toBlock /\ pb[h] > 0
      hashes == SelectSeq([h \in PingHashes |-> h], InRange)
  IN  [k \in 1..Len(hashes) |->
         [transactionHash |-> hashes[k], blockNumber |-> pb[hashes[k]]]]

\* EthereumService.getTransaction
getTransaction(t, hash) == t[hash]

\* a search that finds the transactions the mempools have dropped as well
searchMempoolTransactionAlways(t, hash) ==
  [providerName |-> "alchemy", transaction |-> t[hash]]

\* EthereumService.searchMempoolTransaction: a provider knows a transaction
\* that is in its mempool or mined; a dropped one is found nowhere
searchMempoolTransaction(t, hash) ==
  IF t[hash].block = -1 THEN Undefined
  ELSE [providerName |-> "alchemy", transaction |-> t[hash]]

\* EthereumService.getMyMempoolPongs
getMyMempoolPongs(t, pb) ==
  LET Mine(i) == IsPending(t[i]) /\ t[i].from = MyAddress
      hashes == SelectSeq([i \in TxHashes(t) |-> i], Mine)
  IN  [k \in 1..Len(hashes) |->
         [pingHash |-> t[hashes[k]].ping,
          pingBlock |-> IF pb[t[hashes[k]].ping] # 0
                          THEN pb[t[hashes[k]].ping] ELSE -1,
          pongHash |-> hashes[k],
          pongNonce |-> t[hashes[k]].nonce]]

(***************************************************************************)
(* Fees (EIP-1559): what the network asks for, low and after a rise.       *)
(***************************************************************************)
FeeLow == [maxFeePerGas |-> 6, maxPriorityFeePerGas |-> 4]
FeeHigh == [maxFeePerGas |-> 12, maxPriorityFeePerGas |-> 6]

Max(a, b) == IF a > b THEN a ELSE b

\* the quotient of two bigints: JavaScript rounds it toward zero
BigIntDiv(a, b) ==
  IF a >= 0 THEN a \div b ELSE -((-a) \div b)

\* the same with the 10% of the replacement rounded down
calculateTransactionBumpFeesRoundedDown(tx, fd) ==
  LET txMaxFee == tx.maxFeePerGas
      txMinerFee == tx.maxPriorityFeePerGas
      currentMaxFee == fd.maxFeePerGas
      currentMinerFee == fd.maxPriorityFeePerGas
      areFeesEnough == txMaxFee >= currentMaxFee /\ txMinerFee >= currentMinerFee
      maxPriorityFeePerGas ==
        IF currentMinerFee > txMinerFee THEN currentMinerFee ELSE txMinerFee
      baseFee == BigIntDiv(currentMaxFee - currentMinerFee, 2)
      adjustedMaxFee == (baseFee * 2) + maxPriorityFeePerGas
      minReplacement == txMaxFee + BigIntDiv(txMaxFee * 10, 100)
      maxFeePerGas == Max(Max(adjustedMaxFee, minReplacement), currentMaxFee)
  IN  IF areFeesEnough THEN Null
      ELSE [maxFeePerGas |-> maxFeePerGas,
            maxPriorityFeePerGas |-> maxPriorityFeePerGas]

\* EthereumService.calculateTransactionBumpFees
calculateTransactionBumpFees(tx, fd) ==
  LET txMaxFee == tx.maxFeePerGas
      txMinerFee == tx.maxPriorityFeePerGas
      currentMaxFee == fd.maxFeePerGas
      currentMinerFee == fd.maxPriorityFeePerGas
      areFeesEnough == txMaxFee >= currentMaxFee /\ txMinerFee >= currentMinerFee
      maxPriorityFeePerGas ==
        IF currentMinerFee > txMinerFee THEN currentMinerFee ELSE txMinerFee
      baseFee == BigIntDiv(currentMaxFee - currentMinerFee, 2)
      adjustedMaxFee == (baseFee * 2) + maxPriorityFeePerGas
      minReplacement == txMaxFee + BigIntDiv(txMaxFee * 10 + 99, 100)
      maxFeePerGas == Max(Max(adjustedMaxFee, minReplacement), currentMaxFee)
  IN  IF areFeesEnough THEN Null
      ELSE [maxFeePerGas |-> maxFeePerGas,
            maxPriorityFeePerGas |-> maxPriorityFeePerGas]

\* EthereumService.pong: the transaction sent.  `nonce || getNonce()`: a
\* nonce of 0 is as good as none (passed as 0 here); without cached fee data
\* the provider fills in the network's fees
PongTx(t, pingHash, nonce, fd, net) ==
  [ping |-> pingHash, from |-> MyAddress,
   nonce |-> IF nonce # 0 THEN nonce ELSE getNonce(t),
   block |-> 0,
   maxFeePerGas |-> IF fd = Null THEN net.maxFeePerGas ELSE fd.maxFeePerGas,
   maxPriorityFeePerGas |->
     IF fd = Null THEN net.maxPriorityFeePerGas ELSE fd.maxPriorityFeePerGas]

\* EthereumService.pong: the reads of the wallet's nonce it makes
PongNonceReads(nonce) == IF nonce # 0 THEN 0 ELSE 1

\* a replacement sent with the fees of the transaction it replaces
BumpTxSameFees(staleTx, fees) == staleTx

\* EthereumService.bumpTransactionFees: the replacement sent
BumpTx(staleTx, fees) ==
  [staleTx EXCEPT !.maxFeePerGas = fees.maxFeePerGas,
                  !.maxPriorityFeePerGas = fees.maxPriorityFeePerGas]

(***************************************************************************)
(* PingPong: the phases of an iteration, as functions of the store         *)
(***************************************************************************)
RECURSIVE processPongsChanged(_, _, _, _, _)
\* processPongs with one of its checks left out
processPongsChanged(ex, t, pongs, isRecoveryModeEnabled, change) ==
  IF pongs = <<>> THEN ex
  ELSE
    LET pong == Head(pongs)
        pongHash == pong.transactionHash
        pongBlock == pong.blockNumber
        pingHash == pong.data
        exchange == getExchange(ex, pingHash)
        tx == getTransaction(t, pongHash)
        after ==
          IF isRecoveryModeEnabled
            THEN IF tx.from # MyAddress /\ change # "sender" THEN ex
                 ELSE putCompletedExchange(ex,
                        Spread(IF exchange = Undefined THEN <<>> ELSE exchange,
                               [pingHash |-> pingHash, pongHash |-> pongHash,
                                pongBlock |-> pongBlock, pongNonce |-> tx.nonce]))
          ELSE IF exchange # Undefined /\ exchange.state = "pong_issued"
                  /\ exchange.pongHash # pongHash /\ change = "adopt"
            THEN [ex EXCEPT ![pingHash] =
                    Spread(exchange, [pongHash |-> pongHash])]
          ELSE IF exchange = Undefined \/ exchange.state # "pong_issued"
                  \/ (exchange.pongHash # pongHash /\ change # "hash")
            THEN ex
          ELSE putCompletedExchange(ex, Spread(exchange, [pongBlock |-> pongBlock]))
    IN  processPongsChanged(after, t, Tail(pongs), isRecoveryModeEnabled, change)

\* a normal mode that completes a PongIssued exchange on any Pong of its ping
processPongsAnyHash(ex, t, pongs, isRecoveryModeEnabled) ==
  processPongsChanged(ex, t, pongs, isRecoveryModeEnabled, "hash")
\* a recovery mode that takes every Pong for one of the wallet
processPongsAnySender(ex, t, pongs, isRecoveryModeEnabled) ==
  processPongsChanged(ex, t, pongs, isRecoveryModeEnabled, "sender")
\* a normal mode that, on a Pong with another hash, takes that hash for the
\* PongIssued record and leaves the completion to the next run
processPongsAdoptingHash(ex, t, pongs, isRecoveryModeEnabled) ==
  processPongsChanged(ex, t, pongs, isRecoveryModeEnabled, "adopt")

RECURSIVE processPongs(_, _, _, _)
\* PingPong.processPongs, over the logs getPongs returned
processPongs(ex, t, pongs, isRecoveryModeEnabled) ==
  IF pongs = <<>> THEN ex
  ELSE
    LET pong == Head(pongs)
        pongHash == pong.transactionHash
        pongBlock == pong.blockNumber
        pingHash == pong.data
        exchange == getExchange(ex, pingHash)
        tx == getTransaction(t, pongHash)
        after ==
          IF isRecoveryModeEnabled
            THEN IF tx.from # MyAddress THEN ex
                 ELSE putCompletedExchange(ex,
                        Spread(IF exchange = Undefined THEN <<>> ELSE exchange,
                               [pingHash |-> pingHash, pongHash |-> pongHash,
                                pongBlock |-> pongBlock, pongNonce |-> tx.nonce]))
          ELSE IF exchange = Undefined \/ exchange.state # "pong_issued"
                  \/ exchange.pongHash # pongHash
            THEN ex
          ELSE putCompletedExchange(ex, Spread(exchange, [pongBlock |-> pongBlock]))
    IN  processPongs(after, t, Tail(pongs), isRecoveryModeEnabled)

RECURSIVE processPingsOverwrite(_, _)
\* a processPings that stores every ping of the range, known or not
processPingsOverwrite(ex, pings) ==
  IF pings = <<>> THEN ex
  ELSE processPingsOverwrite(
         putPingDetected(ex, [pingHash |-> Head(pings).transactionHash,
                              pingBlock |-> Head(pings).blockNumber]),
         Tail(pings))

RECURSIVE processPings(_, _)
\* PingPong.processPings, over the logs getPings returned
processPings(ex, pings) ==
  IF pings = <<>> THEN ex
  ELSE
    LET ping == Head(pings)
        pingBlock == ping.blockNumber
        pingHash == ping.transactionHash
        exchange == getExchange(ex, pingHash)
        after == IF exchange # Undefined THEN ex
                 ELSE putPingDetected(ex, [pingHash |-> pingHash,
                                           pingBlock |-> pingBlock])
    IN  processPings(after, Tail(pings))

\* a cleanup that removes nothing
cleanupKeepsAll(ex) == ex

\* PingPong.cleanup
cleanup(ex) == removeCompletedExchanges(ex)

RECURSIVE processMempoolIfAbsent(_, _, _)
\* a mempool scan that leaves the pings that have a record alone
processMempoolIfAbsent(ex, pongs, clock) ==
  IF pongs = <<>> THEN ex
  ELSE processMempoolIfAbsent(
         IF getExchange(ex, Head(pongs).pingHash) # Undefined THEN ex
         ELSE putPongIssued(ex, Head(pongs), clock),
         Tail(pongs), clock)

RECURSIVE processMempool(_, _, _)
\* PingPong.processMempool, over what getMyMempoolPongs returned
processMempool(ex, pongs, clock) ==
  IF pongs = <<>> THEN ex
  ELSE processMempool(putPongIssued(ex, Head(pongs), clock), Tail(pongs), clock)

VARIABLES
  iteration,   \* store: the "iteration" key (Undefined when absent)
  exchanges,   \* store: the "exchanges" sublevel
  head,        \* chain: the latest block number
  pingBlock,   \* chain: the block of each Ping (0: not emitted yet)
  txs,         \* chain: the pong transactions sent so far
  now,         \* the clock
  netFee,      \* chain: the fees the network asks for
  feeData,     \* EthereumService.feeData (Null until refreshed)
  pc,          \* the bot's position in start() / iterate()
  cur,         \* iterate(): the planned iteration
  todo,        \* the exchanges left in the loop of the current phase
  nonce,       \* answerPendingPings(): the local nonce
  sub,         \* a record built after a submission, not stored yet
  faults,      \* aborted iterations, kills and store losses so far
  drops,       \* transactions dropped so far
  scanned,     \* history: the blocks processPongs and processPings went over
  removed,     \* what removeCompletedExchanges returned to its caller
  nonceReads,  \* history: the reads of the wallet's nonce made by the
               \* answerPendingPings under way
  proc         \* the process: the run loop's timer and resolver, the calls
               \* of shutdown, the store's handle and the exit code

store == <<iteration, exchanges>>
chain == <<head, pingBlock, txs, now, netFee>>
local == <<cur, todo, nonce, sub>>
vars == <<iteration, exchanges, head, pingBlock, txs, now, netFee, feeData,
          pc, cur, todo, nonce, sub, faults, drops, scanned, removed, nonceReads,
          proc>>

\* the chain when the bot is first started
InitHead == 3

(***************************************************************************)
(* The process: index.ts sets up the shutdown handlers and calls start()   *)
(***************************************************************************)
\* nextIteration: the timer is armed; onReadyToClose: the call of shutdown
\* whose stop() promise the bot can resolve (0: undefined); shutdowns: the
\* calls of shutdown(code) and where each stands; exit: -1 while running
ProcInit ==
  [nextIteration |-> FALSE, onReadyToClose |-> 0, shutdowns |-> <<>>,
   storage |-> "open", exit |-> -1]

\* a shutdown(code) that does not wait for the bot to stop
shutdownWithoutStop(p, code) ==
  [p EXCEPT !.shutdowns = Append(@, [code |-> code, at |-> "close"])]

\* shutdown(code) up to its first await: stop() replaces the resolver
shutdown(p, code) ==
  [p EXCEPT !.shutdowns = Append(@, [code |-> code, at |-> "stop"]),
            !.onReadyToClose = Len(p.shutdowns) + 1]

\* start() enters: this.nextIteration = undefined
Started(p) == [p EXCEPT !.nextIteration = FALSE]

\* start() after an iterate() that returned: under shutdown it resolves the
\* promise of stop(), else it arms the timer
AfterIterate(p) ==
  IF p.onReadyToClose # 0
    THEN [p EXCEPT !.shutdowns[p.onReadyToClose].at = "close"]
    ELSE [p EXCEPT !.nextIteration = TRUE]

\* where start() leaves the run loop after an iterate() that returned
AfterStart(p) == IF p.onReadyToClose # 0 THEN "stopped" ELSE "idle"

NoExchanges == [h \in PingHashes |-> Undefined]

\* the pings come out in the order of their hashes, one a block at most
PingsInOrder(pb) ==
  \A g, h \in PingHashes :
    g < h => /\ (pb[h] # 0 => pb[g] # 0)
             /\ (pb[h] # 0 => pb[g] < pb[h])

Init ==
  /\ iteration = Undefined
  /\ exchanges = NoExchanges
  /\ head = InitHead
  /\ pingBlock \in { pb \in [PingHashes -> 0..InitHead] : PingsInOrder(pb) }
  /\ txs = <<>>
  /\ now = 0
  /\ netFee = FeeLow
  /\ feeData = Null
  /\ pc = "idle"
  /\ cur = Undefined
  /\ todo = <<>>
  /\ nonce = 0
  /\ sub = Undefined
  /\ faults = 0
  /\ drops = 0
  /\ scanned = {}
  /\ removed = <<>>
  /\ nonceReads = 0
  /\ proc = ProcInit

(***************************************************************************)
(* PingPong.iterate, step by step                                          *)
(***************************************************************************)
FirstPhase(it) ==
  CASE it.type = "recovery_start" -> "mempool"
    [] it.type = "recovery_end" -> "answer"
    [] OTHER -> "pongs"

\* a tick that stores the planner's answer before looking at it
PlanSkipStored ==
  /\ pc = "idle"
  /\ LET it == planIteration(iteration, head)
     IN  IF it = Null
           THEN /\ iteration' = Undefined
                /\ pc' = AfterStart(proc)
                /\ proc' = AfterIterate(Started(proc))
                /\ UNCHANGED cur
           ELSE /\ iteration' = it
                /\ cur' = it
                /\ pc' = FirstPhase(it)
                /\ proc' = Started(proc)
  /\ UNCHANGED <<exchanges, chain, feeData, todo, nonce, sub, faults, drops,
                 scanned, removed, nonceReads>>

\* a tick that runs its phases before the descriptor is stored
PlanWithoutWrite ==
  /\ pc = "idle"
  /\ LET it == planIteration(iteration, head)
     IN  IF it = Null
           THEN /\ pc' = AfterStart(proc)
                /\ proc' = AfterIterate(Started(proc))
                /\ UNCHANGED cur
           ELSE /\ cur' = it
                /\ pc' = FirstPhase(it)
                /\ proc' = Started(proc)
  /\ UNCHANGED <<store, chain, feeData, todo, nonce, sub, faults, drops,
                 scanned, removed, nonceReads>>

\* start() enters iterate(): getIteration, planIteration and, unless the
\* tick is skipped (iterate() returns at once), setIteration
Plan ==
  /\ pc = "idle"
  /\ LET it == planIteration(iteration, head)
     IN  IF it = Null
           THEN /\ pc' = AfterStart(proc)
                /\ proc' = AfterIterate(Started(proc))
                /\ UNCHANGED <<iteration, cur>>
           ELSE /\ iteration' = it
                /\ cur' = it
                /\ pc' = FirstPhase(it)
                /\ proc' = Started(proc)
  /\ UNCHANGED <<exchanges, chain, feeData, todo, nonce, sub, faults, drops,
                 scanned, removed, nonceReads>>

ProcessMempool ==
  /\ pc = "mempool"
  /\ exchanges' = processMempool(exchanges, getMyMempoolPongs(txs, pingBlock), now)
  /\ pc' = "complete"
  /\ UNCHANGED <<iteration, chain, feeData, local, faults, drops, scanned, removed, nonceReads, proc>>

ProcessPongs ==
  /\ pc = "pongs"
  /\ exchanges' = processPongs(exchanges, txs,
                               getPongs(txs, cur.fromBlock, cur.toBlock),
                               cur.type = "recovery")
  /\ pc' = "pings"
  /\ UNCHANGED <<iteration, chain, feeData, local, faults, drops, scanned, removed, nonceReads, proc>>

ProcessPings ==
  /\ pc = "pings"
  /\ exchanges' = processPings(exchanges,
                               getPings(pingBlock, cur.fromBlock, cur.toBlock))
  /\ scanned' = scanned \cup (cur.fromBlock..cur.toBlock)
  /\ pc' = "cleanup"
  /\ UNCHANGED <<iteration, chain, feeData, local, faults, drops, removed, nonceReads, proc>>

\* a cleanup that is followed by answerPendingPings in recovery too
CleanupThenAnswer ==
  /\ pc = "cleanup"
  /\ exchanges' = cleanup(exchanges)
  /\ pc' = "answer"
  /\ UNCHANGED <<iteration, chain, feeData, local, faults, drops, scanned, removed, nonceReads, proc>>

Cleanup ==
  /\ pc = "cleanup"
  /\ exchanges' = cleanup(exchanges)
  /\ pc' = IF cur.type = "recovery" THEN "complete" ELSE "answer"
  /\ UNCHANGED <<iteration, chain, feeData, local, faults, drops, scanned, removed, nonceReads, proc>>

\* an iteration that ends after answering, whatever its type
AfterAnswerNoStale == "complete"

AfterAnswer == IF cur.type = "normal" THEN "stale" ELSE "complete"

\* answerPendingPings: the Detected exchanges and the wallet's nonce
Answer ==
  /\ pc = "answer"
  /\ LET pending == getPingDetectedExchanges(exchanges)
     IN  IF pending = <<>>
           THEN /\ pc' = AfterAnswer
                /\ UNCHANGED <<todo, nonce, nonceReads>>
           ELSE /\ todo' = pending
                /\ nonce' = getNonce(txs)
                /\ nonceReads' = 1
                /\ pc' = "answer_submit"
  /\ UNCHANGED <<store, chain, feeData, cur, sub, faults, drops, scanned, removed, proc>>

\* a loop that submits the pongs of all the exchanges before it stores any
AnswerSubmitBatched ==
  /\ pc = "answer_submit"
  /\ Len(txs) < MaxTxs
  /\ LET exchange == Head(todo)
         tx == PongTx(txs, exchange.pingHash, nonce, feeData, netFee)
     IN  /\ NonceAccepted(txs, tx.nonce)
         /\ txs' = Append(txs, tx)
         /\ sub' = Spread(exchange, [pongHash |-> Len(txs) + 1, pongNonce |-> nonce])
  /\ nonceReads' = nonceReads + PongNonceReads(nonce)
  /\ todo' = IF Len(todo) > 1 THEN Tail(todo) ELSE todo
  /\ nonce' = IF Len(todo) > 1 THEN nonce + 1 ELSE nonce
  /\ pc' = IF Len(todo) > 1 THEN "answer_submit" ELSE "answer_store"
  /\ UNCHANGED <<store, head, pingBlock, now, netFee, feeData, cur,
                 faults, drops, scanned, removed, proc>>

\* answerPendingPings: client.pong(pingHash, { nonce })
AnswerSubmit ==
  /\ pc = "answer_submit"
  /\ Len(txs) < MaxTxs
  /\ LET exchange == Head(todo)
         tx == PongTx(txs, exchange.pingHash, nonce, feeData, netFee)
     IN  /\ NonceAccepted(txs, tx.nonce)
         /\ txs' = Append(txs, tx)
         /\ sub' = Spread(exchange, [pongHash |-> Len(txs) + 1, pongNonce |-> nonce])
  /\ nonceReads' = nonceReads + PongNonceReads(nonce)
  /\ pc' = "answer_store"
  /\ UNCHANGED <<store, head, pingBlock, now, netFee, feeData, cur, todo, nonce,
                 faults, drops, scanned, removed, proc>>

\* answerPendingPings: storage.putPongIssued, and on to the next exchange
AnswerStore ==
  /\ pc = "answer_store"
  /\ exchanges' = putPongIssued(exchanges, sub, now)
  /\ sub' = Undefined
  /\ todo' = Tail(todo)
  /\ nonce' = nonce + 1
  /\ pc' = IF Tail(todo) = <<>> THEN AfterAnswer ELSE "answer_submit"
  /\ nonceReads' = IF Tail(todo) = <<>> THEN 0 ELSE nonceReads
  /\ UNCHANGED <<iteration, chain, feeData, cur, faults, drops, scanned, removed, proc>>

\* processStalePongs: the stale exchanges, and refreshFeeData
Stale ==
  /\ pc = "stale"
  /\ LET staleExchanges == getStalePongIssuedExchanges(exchanges, now)
     IN  IF staleExchanges = <<>>
           THEN /\ pc' = "complete"
                /\ UNCHANGED <<todo, feeData>>
           ELSE /\ todo' = staleExchanges
                /\ feeData' = netFee
                /\ pc' = "stale_item"
  /\ UNCHANGED <<store, chain, cur, nonce, sub, faults, drops, scanned, removed, nonceReads, proc>>

AfterStaleItem == IF Tail(todo) = <<>> THEN "complete" ELSE "stale_item"

\* processStalePongs, one exchange: the search and what it leads to
StaleItem ==
  /\ pc = "stale_item"
  /\ LET exchange == Head(todo)
         searchResult == searchMempoolTransaction(txs, exchange.pongHash)
     IN  IF searchResult = Undefined
           THEN \* dropped: client.pong(pingHash)
                LET tx == PongTx(txs, exchange.pingHash, 0, feeData, netFee)
                IN  /\ Len(txs) < MaxTxs
                    /\ NonceAccepted(txs, tx.nonce)
                    /\ txs' = Append(txs, tx)
                    /\ sub' = Spread(exchange, [pongHash |-> Len(txs) + 1,
                                                pongTimestamp |-> now])
                    /\ pc' = "stale_store"
                    /\ UNCHANGED todo
           ELSE LET staleTx == searchResult.transaction
                    newFees == calculateTransactionBumpFees(staleTx, feeData)
                IN  IF staleTx.block > 0 \/ newFees = Null
                      THEN /\ todo' = Tail(todo)
                           /\ pc' = AfterStaleItem
                           /\ UNCHANGED <<txs, sub>>
                      ELSE \* client.bumpTransactionFees: the replacement
                           \* takes the place of the stale transaction
                           /\ Len(txs) < MaxTxs
                           /\ txs' = Append([txs EXCEPT ![exchange.pongHash].block = -1],
                                            BumpTx(staleTx, newFees))
                           /\ sub' = Spread(exchange, [pongTimestamp |-> now])
                           /\ pc' = "stale_store"
                           /\ UNCHANGED todo
  /\ UNCHANGED <<store, head, pingBlock, now, netFee, feeData, cur, nonce,
                 faults, drops, scanned, removed, nonceReads, proc>>

\* processStalePongs: storage.putPongIssued after a reissue or a bump
StaleStore ==
  /\ pc = "stale_store"
  /\ exchanges' = putPongIssued(exchanges, sub, now)
  /\ sub' = Undefined
  /\ todo' = Tail(todo)
  /\ pc' = AfterStaleItem
  /\ UNCHANGED <<iteration, chain, feeData, cur, nonce, faults, drops, scanned, removed, nonceReads, proc>>

\* setIteration({ ...iteration, state: COMPLETED }); iterate() returns and
\* start() arms the timer or, under shutdown, resolves the promise of stop()
Complete ==
  /\ pc = "complete"
  /\ iteration' = [cur EXCEPT !.state = "completed"]
  /\ pc' = AfterStart(proc)
  /\ proc' = AfterIterate(proc)
  /\ cur' = Undefined
  /\ UNCHANGED <<exchanges, chain, feeData, todo, nonce, sub, faults, drops,
                 scanned, removed, nonceReads>>

(***************************************************************************)
(* Faults                                                                  *)
(***************************************************************************)
Forget ==
  /\ cur' = Undefined
  /\ todo' = <<>>
  /\ nonce' = 0
  /\ sub' = Undefined
  /\ nonceReads' = 0

\* a failure that is swallowed: iterate() goes on to its last write
AbortSwallowed ==
  /\ pc \notin {"dead", "stopped", "answer_store", "stale_store", "complete"}
  /\ faults < MaxFaults
  /\ faults' = faults + 1
  /\ pc' = "complete"
  /\ UNCHANGED <<store, chain, feeData, local, drops, scanned, removed, nonceReads, proc>>

\* a gateway or store call throws: the exception escapes iterate() and
\* start(), which arms no timer; the rejection of start() is unhandled and
\* its handler calls shutdown(1)
Abort ==
  /\ pc \notin {"dead", "stopped", "answer_store", "stale_store", "complete"}
  /\ faults < MaxFaults
  /\ faults' = faults + 1
  /\ pc' = "dead"
  /\ proc' = shutdown(Started(proc), 1)
  /\ Forget
  /\ UNCHANGED <<store, chain, feeData, drops, scanned, removed>>

\* processPongs in recovery mode: getTransaction returns null for a pong of
\* the range, and the phase throws after the pongs that came before it
PongLookupFails ==
  /\ pc = "pongs"
  /\ cur.type = "recovery"
  /\ LET pongs == getPongs(txs, cur.fromBlock, cur.toBlock)
     IN  \E k \in 1..Len(pongs) :
           exchanges' = processPongs(exchanges, txs, SubSeq(pongs, 1, k - 1),
                                     TRUE)
  /\ pc' = "dead"
  /\ proc' = shutdown(proc, 1)
  /\ Forget
  /\ UNCHANGED <<iteration, chain, feeData, faults, drops, scanned, removed>>

\* the process is killed at any point and started again
Crash ==
  /\ pc # "dead"
  /\ faults < MaxFaults
  /\ faults' = faults + 1
  /\ pc' = "idle"
  /\ feeData' = Null
  /\ Forget
  /\ proc' = ProcInit
  /\ UNCHANGED <<store, chain, drops, scanned, removed>>

\* the process is started again after start() has given up
Restart ==
  /\ pc = "dead"
  /\ pc' = "idle"
  /\ feeData' = Null
  /\ Forget
  /\ proc' = ProcInit
  /\ UNCHANGED <<store, chain, faults, drops, scanned, removed>>

\* the data directory is lost and the process started again
StoreLoss ==
  /\ faults < MaxFaults
  /\ faults' = faults + 1
  /\ iteration' = Undefined
  /\ exchanges' = NoExchanges
  /\ pc' = "idle"
  /\ feeData' = Null
  /\ Forget
  /\ proc' = ProcInit
  /\ UNCHANGED <<chain, drops, scanned, removed>>

(***************************************************************************)
(* The chain and the clock                                                 *)
(***************************************************************************)
\* the pending transactions a next block can hold: by nonce, without a gap
Mineable(t, k) ==
  \A n \in MinedCount(t)..(MinedCount(t) + k - 1) : n \in PendingNonces(t)

MineUpTo(t, k, b) ==
  [i \in TxHashes(t) |->
     IF IsPending(t[i]) /\ t[i].nonce < MinedCount(t) + k
       THEN [t[i] EXCEPT !.block = b] ELSE t[i]]

NewBlock ==
  /\ head < MaxHead
  /\ head' = head + 1
  /\ \E k \in 0..Len(txs) :
       /\ Mineable(txs, k)
       /\ txs' = MineUpTo(txs, k, head + 1)
  /\ \/ UNCHANGED pingBlock
     \/ \E h \in PingHashes :
          /\ pingBlock[h] = 0
          /\ \A g \in PingHashes : g < h => pingBlock[g] # 0
          /\ pingBlock' = [pingBlock EXCEPT ![h] = head + 1]
  /\ UNCHANGED <<store, now, netFee, feeData, pc, local, faults, drops, scanned, removed, nonceReads, proc>>

DropTx ==
  /\ drops < MaxDrops
  /\ \E i \in TxHashes(txs) :
       /\ IsPending(txs[i])
       /\ txs' = [txs EXCEPT ![i].block = -1]
  /\ drops' = drops + 1
  /\ UNCHANGED <<store, head, pingBlock, now, netFee, feeData, pc, local, faults, scanned, removed, nonceReads, proc>>

TimePasses ==
  /\ now < MaxTime
  /\ now' = now + 1
  /\ UNCHANGED <<store, head, pingBlock, txs, netFee, feeData, pc, local,
                 faults, drops, scanned, removed, nonceReads, proc>>

FeeRise ==
  /\ netFee = FeeLow
  /\ netFee' = FeeHigh
  /\ UNCHANGED <<store, head, pingBlock, txs, now, feeData, pc, local,
                 faults, drops, scanned, removed, nonceReads, proc>>

Tick ==
  \/ Plan \/ ProcessMempool \/ ProcessPongs \/ ProcessPings \/ Cleanup
  \/ Answer \/ AnswerSubmit \/ AnswerStore
  \/ Stale \/ StaleItem \/ StaleStore \/ Complete

Fault == Abort \/ Crash \/ Restart \/ StoreLoss \/ PongLookupFails

Environment == NewBlock \/ DropTx \/ TimePasses \/ FeeRise

Next == Tick \/ Fault \/ Environment

Spec == Init /\ [][Next]_vars

(***************************************************************************)
(* The bot without failures: ticks, and the chain doing as it likes.       *)
(***************************************************************************)
NoFaultNext == Tick \/ Environment

SpecNoFault == Init /\ [][NoFaultNext]_vars

(***************************************************************************)
(* A cooperative environment, for progress: the chain keeps advancing      *)
(* while the bot waits for blocks (or has stopped), every block mines what *)
(* the mempool holds and nothing is dropped; the fees may rise.  A gateway *)
(* call may still fail, MaxFaults times at most.                           *)
(***************************************************************************)
Waiting == pc = "idle" /\ planIteration(iteration, head) = Null

LiveNewBlock ==
  /\ Waiting \/ pc = "dead"
  /\ NewBlock
  /\ \A i \in TxHashes(txs) : ~IsPending(txs'[i])

LiveNext == Tick \/ Abort \/ Restart \/ LiveNewBlock \/ TimePasses \/ FeeRise

\* the timer fires and the awaited calls return; blocks keep coming
SpecLive ==
  Init /\ [][LiveNext]_vars /\ WF_vars(Tick) /\ WF_vars(LiveNewBlock)

(***************************************************************************)
(* The planner alone: any stored iteration, any chain head.                *)
(***************************************************************************)
PlanInit ==
  /\ iteration \in Iterations \cup {Undefined}
  /\ head \in 0..MaxHead
  /\ exchanges = NoExchanges
  /\ pingBlock = [h \in PingHashes |-> 0]
  /\ txs = <<>>
  /\ now = 0
  /\ netFee = FeeLow
  /\ feeData = Null
  /\ pc = "idle"
  /\ cur = Undefined
  /\ todo = <<>>
  /\ nonce = 0
  /\ sub = Undefined
  /\ faults = 0
  /\ drops = 0
  /\ scanned = {}
  /\ removed = <<>>
  /\ nonceReads = 0
  /\ proc = ProcInit

\* iterate(), up to the planner's answer
PlanOnly ==
  /\ pc = "idle"
  /\ cur' = planIteration(iteration, head)
  /\ pc' = "planned"
  /\ UNCHANGED <<store, chain, feeData, todo, nonce, sub, faults, drops, scanned, removed, nonceReads, proc>>

PlanNext == PlanOnly

SpecPlan == PlanInit /\ [][PlanNext]_vars

(***************************************************************************)
(* processPongs alone: any stored record for a ping, and a block range     *)
(* with any Pong logs, of the wallet or of another sender, inside the      *)
(* range or after it.                                                      *)
(***************************************************************************)
\* Pong transactions on the chain
MaxLogs == 2

PongsFrom == STARTING_BLOCK
PongsTo == STARTING_BLOCK + MAX_BLOCKS_BATCH_SIZE

LoggedTx(i, ping, from, block) ==
  [ping |-> ping, from |-> from, nonce |-> i - 1, block |-> block,
   maxFeePerGas |-> FeeLow.maxFeePerGas,
   maxPriorityFeePerGas |-> FeeLow.maxPriorityFeePerGas]

LoggedTxs ==
  UNION { { [i \in 1..n |-> LoggedTx(i, f[i][1], f[i][2], f[i][3])] :
            f \in [1..n -> PingHashes \X {MyAddress, "other"}
                               \X {PongsFrom, PongsTo, PongsTo + 1}] } :
          n \in 1..MaxLogs }

\* what the store can hold for a ping; the pong hash MaxLogs + 1 is the hash
\* of a transaction that was never mined
StoredExchanges(h) ==
  {Undefined, [state |-> "detected", pingHash |-> h, pingBlock |-> PongsFrom]}
    \cup { [state |-> "pong_issued", pingHash |-> h, pingBlock |-> PongsFrom,
            pongHash |-> p, pongNonce |-> p - 1, pongTimestamp |-> 0] :
            p \in 1..(MaxLogs + 1) }
    \cup { [state |-> "completed", pingHash |-> h, pingBlock |-> PongsFrom,
            pongHash |-> p, pongNonce |-> p - 1, pongTimestamp |-> 0,
            pongBlock |-> PongsFrom] : p \in 1..MaxLogs }
    \cup { [state |-> "completed", pingHash |-> h, pongHash |-> p,
            pongNonce |-> p - 1, pongBlock |-> PongsFrom] : p \in 1..MaxLogs }

PongsInit ==
  /\ cur \in { [type |-> "normal", state |-> "started",
                fromBlock |-> PongsFrom, toBlock |-> PongsTo],
               [type |-> "recovery", state |-> "started",
                fromBlock |-> PongsFrom, toBlock |-> PongsTo,
                recoveryUntilBlock |-> PongsTo + 1] }
  /\ iteration = cur
  /\ exchanges \in { ex \in [PingHashes -> UNION { StoredExchanges(h) :
                                                   h \in PingHashes }] :
                       \A h \in PingHashes : ex[h] \in StoredExchanges(h) }
  /\ txs \in LoggedTxs
  /\ head = PongsTo + 1 + CONFIRMATION_BLOCKS
  /\ pingBlock = [h \in PingHashes |-> PongsFrom]
  /\ now = 0
  /\ netFee = FeeLow
  /\ feeData = Null
  /\ pc = "pongs"
  /\ todo = <<>>
  /\ nonce = 0
  /\ sub = Undefined
  /\ faults = 0
  /\ drops = 0
  /\ scanned = {}
  /\ removed = <<>>
  /\ nonceReads = 0
  /\ proc = ProcInit

PongsNext == ProcessPongs

SpecPongs == PongsInit /\ [][PongsNext]_vars

(***************************************************************************)
(* processPings alone: any stored record for a ping, and the Ping emitted  *)
(* before the range, inside it, after it or not at all.                    *)
(***************************************************************************)
PingsInit ==
  /\ cur \in { [type |-> "normal", state |-> "started",
                fromBlock |-> PongsFrom + 1, toBlock |-> PongsTo],
               [type |-> "recovery", state |-> "started",
                fromBlock |-> PongsFrom + 1, toBlock |-> PongsTo,
                recoveryUntilBlock |-> PongsTo + 1] }
  /\ iteration = cur
  /\ exchanges \in { ex \in [PingHashes -> UNION { StoredExchanges(h) :
                                                   h \in PingHashes }] :
                       \A h \in PingHashes : ex[h] \in StoredExchanges(h) }
  /\ txs = <<>>
  /\ head = PongsTo + 1 + CONFIRMATION_BLOCKS
  /\ pingBlock \in [PingHashes -> {0} \cup (PongsFrom..(PongsTo + 1))]
  /\ now = 0
  /\ netFee = FeeLow
  /\ feeData = Null
  /\ pc = "pings"
  /\ todo = <<>>
  /\ nonce = 0
  /\ sub = Undefined
  /\ faults = 0
  /\ drops = 0
  /\ scanned = {}
  /\ removed = <<>>
  /\ nonceReads = 0
  /\ proc = ProcInit

PingsNext == ProcessPings

SpecPings == PingsInit /\ [][PingsNext]_vars

(***************************************************************************)
(* The store alone: any records, and a caller of its methods with any      *)
(* arguments.                                                              *)
(***************************************************************************)
\* the keys of a store drawn for a phase or a method on its own
MaxKeys == 2
StoreKeys == 1..MaxKeys

DrawnStores ==
  { ex \in [StoreKeys -> UNION { StoredExchanges(h) : h \in StoreKeys }] :
      \A h \in StoreKeys : ex[h] \in StoredExchanges(h) }

StorageInit ==
  /\ iteration = Undefined
  /\ exchanges \in DrawnStores
  /\ head = InitHead
  /\ pingBlock = [h \in PingHashes |-> 0]
  /\ txs = <<>>
  /\ now \in 0..MaxTime
  /\ netFee = FeeLow
  /\ feeData = Null
  /\ pc = "storage"
  /\ cur = Undefined
  /\ todo = <<>>
  /\ nonce = 0
  /\ sub = Undefined
  /\ faults = 0
  /\ drops = 0
  /\ scanned = {}
  /\ removed = <<>>
  /\ nonceReads = 0
  /\ proc = ProcInit

Returned ==
  /\ pc' = "returned"
  /\ UNCHANGED <<iteration, chain, feeData, local, faults, drops, scanned,
                 proc>>

Put(after) ==
  /\ pc = "storage"
  /\ exchanges' = after
  /\ UNCHANGED <<removed, nonceReads>>
  /\ Returned

CallPutPingDetected ==
  \E h \in StoreKeys, b \in PongsFrom..PongsTo :
    Put(putPingDetected(exchanges, [pingHash |-> h, pingBlock |-> b]))

CallPutPongIssued ==
  \E h \in StoreKeys :
    \E fields \in { e \in StoredExchanges(h) : IsPongIssued(e) } :
      Put(putPongIssued(exchanges, fields, now))

CallPutCompletedExchange ==
  \E h \in StoreKeys :
    \E fields \in { e \in StoredExchanges(h) : IsCompleted(e) } :
      Put(putCompletedExchange(exchanges, fields))

CallRemoveCompletedExchanges ==
  /\ pc = "storage"
  /\ exchanges' = removeCompletedExchanges(exchanges)
  /\ removed' = completedExchanges(exchanges)
  /\ UNCHANGED nonceReads
  /\ Returned

StorageNext ==
  \/ CallPutPingDetected \/ CallPutPongIssued \/ CallPutCompletedExchange
  \/ CallRemoveCompletedExchanges

SpecStorage == StorageInit /\ [][StorageNext]_vars

(***************************************************************************)
(* answerPendingPings alone: any store, and a wallet that has sent         *)
(* nothing yet or one transaction (dropped, pending or mined).             *)
(***************************************************************************)
WalletTxs ==
  {<<>>} \cup { <<LoggedTx(1, h, MyAddress, b)>> :
                  h \in StoreKeys, b \in {-1, 0, PongsFrom} }

AnswerInit ==
  /\ cur \in { [type |-> "normal", state |-> "started",
                fromBlock |-> PongsFrom, toBlock |-> PongsTo],
               [type |-> "recovery_end", state |-> "started",
                toBlock |-> PongsTo] }
  /\ iteration = cur
  /\ exchanges \in DrawnStores
  /\ txs \in WalletTxs
  /\ head = PongsTo + 1 + CONFIRMATION_BLOCKS
  /\ pingBlock = [h \in PingHashes |-> PongsFrom]
  /\ now = 0
  /\ netFee = FeeLow
  /\ feeData = Null
  /\ pc = "answer"
  /\ todo = <<>>
  /\ nonce = 0
  /\ sub = Undefined
  /\ faults = 0
  /\ drops = 0
  /\ scanned = {}
  /\ removed = <<>>
  /\ nonceReads = 0
  /\ proc = ProcInit

AnswerNext == Answer \/ AnswerSubmit \/ AnswerStore

SpecAnswer == AnswerInit /\ [][AnswerNext]_vars

(***************************************************************************)
(* The mempool scan alone: any store, and a chain with pongs of the wallet *)
(* or of another sender, pending or mined.                                 *)
(***************************************************************************)
MempoolTxs ==
  UNION { { [i \in 1..n |-> LoggedTx(i, f[i][1], f[i][2], f[i][3])] :
            f \in [1..n -> StoreKeys \X {MyAddress, "other"}
                               \X {0, PongsFrom}] } :
          n \in 1..MaxLogs }

MempoolInit ==
  /\ cur = [type |-> "recovery_start", state |-> "started",
            toBlock |-> PongsFrom - 1]
  /\ iteration = cur
  /\ exchanges \in DrawnStores
  /\ txs \in MempoolTxs
  /\ head = PongsTo + 1 + CONFIRMATION_BLOCKS
  \* the transaction of every other ping is not to be had from the provider
  /\ pingBlock = [h \in StoreKeys |-> IF h % 2 = 1 THEN PongsFrom ELSE 0]
  /\ now = MaxTime
  /\ netFee = FeeLow
  /\ feeData = Null
  /\ pc = "mempool"
  /\ todo = <<>>
  /\ nonce = 0
  /\ sub = Undefined
  /\ faults = 0
  /\ drops = 0
  /\ scanned = {}
  /\ removed = <<>>
  /\ nonceReads = 0
  /\ proc = ProcInit

MempoolNext == ProcessMempool

SpecMempool == MempoolInit /\ [][MempoolNext]_vars

(***************************************************************************)
(* processStalePongs alone: a store whose PongIssued records are of any    *)
(* age, each with its pong transaction dropped, pending or mined, under    *)
(* low or risen network fees.                                              *)
(***************************************************************************)
IssuedExchanges(h) ==
  { [state |-> "pong_issued", pingHash |-> h, pingBlock |-> PongsFrom,
     pongHash |-> h, pongNonce |-> h - 1, pongTimestamp |-> ts] :
      ts \in 0..MaxTime }

StaleStores ==
  { ex \in [StoreKeys -> UNION { StoredExchanges(h) \cup IssuedExchanges(h) :
                                  h \in StoreKeys }] :
      \A h \in StoreKeys :
        \/ ex[h] \in IssuedExchanges(h)
        \/ ex[h] \in StoredExchanges(h) /\ ~IsPongIssued(ex[h]) }

\* the pong of every key, sent with low fees; the mined ones come first
IssuedTxs ==
  { t \in [StoreKeys -> UNION { { LoggedTx(i, i, MyAddress, b) :
                                   b \in {-1, 0, PongsFrom} } :
                                 i \in StoreKeys }] :
      /\ \A i \in StoreKeys : t[i].ping = i /\ t[i].nonce = i - 1
      /\ \A i, j \in StoreKeys : j < i /\ IsMined(t[i]) => IsMined(t[j]) }

StaleInit ==
  /\ cur = [type |-> "normal", state |-> "started",
            fromBlock |-> PongsFrom, toBlock |-> PongsTo]
  /\ iteration = cur
  /\ exchanges \in StaleStores
  /\ txs \in IssuedTxs
  /\ head = PongsTo + 1 + CONFIRMATION_BLOCKS
  /\ pingBlock = [h \in PingHashes |-> PongsFrom]
  /\ now \in 0..MaxTime
  /\ netFee \in {FeeLow, FeeHigh}
  /\ feeData = Null
  /\ pc = "stale"
  /\ todo = <<>>
  /\ nonce = 0
  /\ sub = Undefined
  /\ faults = 0
  /\ drops = 0
  /\ scanned = {}
  /\ removed = <<>>
  /\ nonceReads = 0
  /\ proc = ProcInit

StaleNext == Stale \/ StaleItem \/ StaleStore

SpecStale == StaleInit /\ [][StaleNext]_vars

(***************************************************************************)
(* calculateTransactionBumpFees alone: a pending pong of the wallet with   *)
(* any fees, against any fee data.                                         *)
(***************************************************************************)
\* the highest fee drawn
MaxFee == 12
Fees == 0..MaxFee

FeesInit ==
  /\ iteration = Undefined
  /\ exchanges = NoExchanges
  /\ head = InitHead
  /\ pingBlock = [h \in PingHashes |-> 0]
  /\ \E m \in Fees, p \in Fees :
       txs = << [ping |-> 1, from |-> MyAddress, nonce |-> 0, block |-> 0,
                 maxFeePerGas |-> m, maxPriorityFeePerGas |-> p] >>
  /\ now = 0
  /\ netFee = FeeLow
  /\ \E m \in Fees, p \in Fees :
       feeData = [maxFeePerGas |-> m, maxPriorityFeePerGas |-> p]
  /\ pc = "fees"
  /\ cur = Undefined
  /\ todo = <<>>
  /\ nonce = 0
  /\ sub = Undefined
  /\ faults = 0
  /\ drops = 0
  /\ scanned = {}
  /\ removed = <<>>
  /\ nonceReads = 0
  /\ proc = ProcInit

\* a call of calculateTransactionBumpFees; sub holds what it returned
CallCalculateTransactionBumpFees ==
  /\ pc = "fees"
  /\ sub' = calculateTransactionBumpFees(txs[1], feeData)
  /\ pc' = "returned"
  /\ UNCHANGED <<store, chain, feeData, cur, todo, nonce, faults, drops,
                 scanned, removed, nonceReads, proc>>

FeesNext == CallCalculateTransactionBumpFees

SpecFees == FeesInit /\ [][FeesNext]_vars

(***************************************************************************)
(* The process under shutdown: the run loop in the cooperative             *)
(* environment, with signals, errors outside the run loop, and the steps   *)
(* of shutdown(code) after its await of bot.stop().                        *)
(***************************************************************************)
\* the signals delivered to the process
MaxSignals == 2

ProcessRuns == proc.exit = -1

Signals(p) == { k \in DOMAIN p.shutdowns : p.shutdowns[k].code = 0 }

\* SIGTERM, SIGINT or SIGHUP: the handler calls shutdown()
Signal ==
  /\ ProcessRuns
  /\ Cardinality(Signals(proc)) < MaxSignals
  /\ proc' = shutdown(proc, 0)
  /\ UNCHANGED <<store, chain, feeData, pc, local, faults, drops, scanned,
                 removed, nonceReads>>

\* an uncaughtException or unhandledRejection raised outside the run loop:
\* the handler calls shutdown(1)
ErrorEvent ==
  /\ ProcessRuns
  /\ faults < MaxFaults
  /\ faults' = faults + 1
  /\ proc' = shutdown(proc, 1)
  /\ UNCHANGED <<store, chain, feeData, pc, local, drops, scanned, removed,
                 nonceReads>>

\* shutdown(code) after bot.stop() resolved: await storage.close()
CloseStorage ==
  /\ ProcessRuns
  /\ \E k \in DOMAIN proc.shutdowns :
       /\ proc.shutdowns[k].at = "close"
       /\ proc' = [proc EXCEPT !.shutdowns[k].at = "exit",
                               !.storage = "closed"]
  /\ UNCHANGED <<store, chain, feeData, pc, local, faults, drops, scanned,
                 removed, nonceReads>>

\* shutdown(code) after storage.close() returned: process.exit(code)
Exit ==
  /\ ProcessRuns
  /\ \E k \in DOMAIN proc.shutdowns :
       /\ proc.shutdowns[k].at = "exit"
       /\ proc' = [proc EXCEPT !.exit = proc.shutdowns[k].code]
  /\ UNCHANGED <<store, chain, feeData, pc, local, faults, drops, scanned,
                 removed, nonceReads>>

ShutdownNext ==
  \/ Tick \/ Abort \/ LiveNewBlock \/ TimePasses \/ FeeRise
  \/ Signal \/ ErrorEvent \/ CloseStorage \/ Exit

\* the timer fires, the awaited calls return and blocks keep coming
SpecShutdown ==
  /\ Init /\ [][ShutdownNext]_vars
  /\ WF_vars(Tick) /\ WF_vars(LiveNewBlock)
  /\ WF_vars(CloseStorage) /\ WF_vars(Exit)

(***************************************************************************)
(* The cooperative environment without failures: no call throws and the    *)
(* process is never killed.                                                *)
(***************************************************************************)
CalmNext == Tick \/ LiveNewBlock \/ TimePasses \/ FeeRise

\* the timer fires and the awaited calls return; blocks keep coming
SpecCalm ==
  Init /\ [][CalmNext]_vars /\ WF_vars(Tick) /\ WF_vars(LiveNewBlock)

(***************************************************************************)
(* Claims                                                                  *)
(***************************************************************************)
\* the Pong(h) transactions of the wallet that were mined
MinedPongs(h) ==
  { i \in TxHashes(txs) :
      txs[i].ping = h /\ txs[i].from = MyAddress /\ IsMined(txs[i]) }

\* C1: for every ping hash, at most one Pong transaction sent from the
\* wallet is ever mined, whatever the ticks, aborts, restarts and store
\* losses
C1_AtMostOnePongMined ==
  \A h \in PingHashes : Cardinality(MinedPongs(h)) <= 1

\* C2: every Ping at or after STARTING_BLOCK (early enough for the bounded
\* chain to hold its answer) eventually has a Pong from the wallet mined,
\* and the exchange of a Ping that was there when the bot started is
\* eventually Completed
C2_EveryPingAnswered ==
  \A h \in PingHashes :
    /\ [](pingBlock[h] >= STARTING_BLOCK /\ pingBlock[h] + 3 <= MaxHead
           => <>(MinedPongs(h) # {}))
    /\ (pingBlock[h] >= STARTING_BLOCK => <>IsCompleted(exchanges[h]))

(***************************************************************************)
(* The planner (under SpecPlan): iteration is the previous iteration, head *)
(* the chain head and cur the planner's answer.                            *)
(***************************************************************************)
Planned == pc = "planned"
PrevStarted == iteration # Undefined /\ iteration.state = "started"
PrevCompleted == iteration # Undefined /\ iteration.state = "completed"
PrevExhausted ==
  iteration.type = "recovery" /\ iteration.toBlock >= iteration.recoveryUntilBlock
\* the planner reaches the computation of a block range
RangeCase == Planned /\ PrevCompleted /\ ~PrevExhausted
NextFrom == iteration.toBlock + 1
NextTo == Min(head - CONFIRMATION_BLOCKS, NextFrom + MAX_BLOCKS_BATCH_SIZE)
IsRanged(it) == it # Null /\ it # Undefined /\ it.type \in {"normal", "recovery"}

\* C3: with no previous iteration in the store the planner returns
\* RecoveryStart, Started, toBlock = STARTING_BLOCK - 1, whatever the head
C3_ColdStartEntersRecovery ==
  Planned /\ iteration = Undefined
    => cur = [type |-> "recovery_start", state |-> "started",
              toBlock |-> STARTING_BLOCK - 1]

C3_Witness ==
  /\ Planned /\ iteration = Undefined /\ head > STARTING_BLOCK + CONFIRMATION_BLOCKS
  /\ cur.type = "recovery_start"

\* C4: a previous iteration left Started, of any type and under any head,
\* makes the planner return RecoveryStart, Started, with toBlock the block
\* before the previous fromBlock when it has one, else the previous toBlock
C4_AbortedIterationRestartsRecovery ==
  Planned /\ PrevStarted
    => cur = [type |-> "recovery_start", state |-> "started",
              toBlock |-> IF iteration.type \in {"normal", "recovery"}
                            THEN iteration.fromBlock - 1
                            ELSE iteration.toBlock]

C4_Witness ==
  /\ Planned /\ PrevStarted /\ iteration.type = "normal"
  /\ cur.type = "recovery_start" /\ cur.toBlock = iteration.fromBlock - 1

\* C5: a Completed Recovery whose toBlock has reached recoveryUntilBlock is
\* followed by RecoveryEnd, Started, with the same toBlock, whatever the
\* head; a Recovery whose toBlock is below recoveryUntilBlock is never
\* followed by RecoveryEnd
C5_ExhaustedRecoveryEnds ==
  Planned /\ PrevCompleted /\ iteration.type = "recovery"
    => IF iteration.toBlock >= iteration.recoveryUntilBlock
         THEN cur = [type |-> "recovery_end", state |-> "started",
                     toBlock |-> iteration.toBlock]
         ELSE cur = Null \/ cur.type # "recovery_end"

C5_Witness ==
  /\ Planned /\ PrevCompleted /\ iteration.type = "recovery"
  /\ iteration.toBlock = iteration.recoveryUntilBlock
  /\ head - CONFIRMATION_BLOCKS <= iteration.toBlock
  /\ cur.type = "recovery_end"

\* C6: when the planner computes a range it returns Skip exactly when
\* toBlock - fromBlock < 1; so it skips whenever the confirmed head is
\* below fromBlock, and no planned range has toBlock < fromBlock
C6_SkipWhenNoRange ==
  RangeCase
    => /\ cur = Null <=> NextTo - NextFrom < 1
       /\ head - CONFIRMATION_BLOCKS < NextFrom => cur = Null
       /\ cur # Null => cur.toBlock >= cur.fromBlock

C6_Witness ==
  RangeCase /\ head - CONFIRMATION_BLOCKS = NextFrom /\ cur = Null

\* C7: when more than MAX_BLOCKS_BATCH_SIZE confirmed blocks lie beyond
\* fromBlock, the planned range ends at fromBlock + MAX_BLOCKS_BATCH_SIZE
C7_ClampedToBlock ==
  RangeCase /\ head - CONFIRMATION_BLOCKS - NextFrom > MAX_BLOCKS_BATCH_SIZE
    => IsRanged(cur) /\ cur.toBlock = NextFrom + MAX_BLOCKS_BATCH_SIZE

C7_Witness ==
  /\ RangeCase /\ head - CONFIRMATION_BLOCKS - NextFrom > MAX_BLOCKS_BATCH_SIZE
  /\ IsRanged(cur) /\ cur.fromBlock = NextFrom

\* C8: every planned Normal or Recovery iteration covers at most
\* MAX_BLOCKS_BATCH_SIZE blocks, counting fromBlock..toBlock inclusive
C8_AtMostBatchSizeBlocks ==
  Planned /\ IsRanged(cur)
    => cur.toBlock - cur.fromBlock + 1 <= MAX_BLOCKS_BATCH_SIZE

\* C9: a range planned after a Completed iteration is a Recovery exactly
\* when the previous type is Recovery or RecoveryStart, and a Normal when
\* it is Normal or RecoveryEnd; it is Started and begins right after the
\* previous toBlock
C9_RangeTypeFollowsPrevious ==
  RangeCase /\ cur # Null
    => /\ cur.type \in {"normal", "recovery"}
       /\ cur.type = "recovery"
            <=> iteration.type \in {"recovery", "recovery_start"}
       /\ iteration.type \in {"normal", "recovery_end"} => cur.type = "normal"
       /\ cur.state = "started"
       /\ cur.fromBlock = iteration.toBlock + 1

C9_Witness ==
  /\ RangeCase /\ iteration.type = "recovery_start"
  /\ cur # Null /\ cur.type = "recovery" /\ cur.fromBlock = NextFrom

\* C10: the first Recovery planned after a RecoveryStart takes the head as
\* its recoveryUntilBlock, and a Recovery planned after a Recovery keeps
\* the recoveryUntilBlock of the previous one, wherever the head is
C10_RecoveryUntilBlockCapturedOnce ==
  RangeCase /\ cur # Null /\ cur.type = "recovery"
    => cur.recoveryUntilBlock =
         IF iteration.type = "recovery" THEN iteration.recoveryUntilBlock
                                        ELSE head

C10_Witness ==
  /\ RangeCase /\ iteration.type = "recovery"
  /\ cur # Null /\ cur.type = "recovery"
  /\ head > iteration.recoveryUntilBlock
  /\ cur.recoveryUntilBlock = iteration.recoveryUntilBlock

(***************************************************************************)
(* The block ranges of successive iterations                               *)
(***************************************************************************)
\* C11: without failures, when a Recovery or Normal iteration starts, the
\* blocks gone over so far are exactly STARTING_BLOCK..fromBlock - 1: the
\* first range starts at STARTING_BLOCK and every later one right after
\* the previous range, also across the RecoveryEnd marker
C11_RangesAreContiguous ==
  pc = "pongs" => scanned = STARTING_BLOCK..(cur.fromBlock - 1)

C11_Witness ==
  /\ pc = "pongs" /\ cur.type = "normal"
  /\ cur.fromBlock > STARTING_BLOCK + MAX_BLOCKS_BATCH_SIZE + 1
  /\ scanned = STARTING_BLOCK..(cur.fromBlock - 1)

\* C12: whatever aborted, whenever the stored iteration is a Completed
\* Normal, Recovery or RecoveryEnd with toBlock = t, every block of
\* STARTING_BLOCK..t was in the range of an iteration whose processPongs
\* and processPings ran to completion
C12_NoBlockSkipped ==
  iteration # Undefined /\ iteration.state = "completed"
    /\ iteration.type \in {"normal", "recovery", "recovery_end"}
    => \A b \in STARTING_BLOCK..iteration.toBlock : b \in scanned

C12_Witness ==
  /\ faults > 0
  /\ iteration # Undefined /\ iteration.state = "completed"
  /\ iteration.type = "normal"
  /\ iteration.toBlock > STARTING_BLOCK + MAX_BLOCKS_BATCH_SIZE + 1
  /\ \A b \in STARTING_BLOCK..iteration.toBlock : b \in scanned

(***************************************************************************)
(* The executor: the descriptor writes and the phases of a tick            *)
(***************************************************************************)
\* an exchange write, a pong submission or a fee bump
SideEffect == exchanges' # exchanges \/ txs' # txs

\* C13: in a tick that is not skipped the descriptor is stored, Started,
\* by a step without side effect before the first phase; every phase step
\* runs under that stored Started descriptor; and the Completed write is
\* the last step of the tick, made once the phases are over, and changes
\* nothing but the descriptor's state
C13_DescriptorWritesBracketTheTick ==
  [][Tick =>
       /\ pc = "idle" /\ pc' # "idle"
            => /\ iteration' = cur' /\ iteration'.state = "started"
               /\ ~SideEffect
       /\ pc \notin {"idle", "complete"}
            => /\ iteration = cur /\ iteration.state = "started"
               /\ iteration' = iteration
       /\ pc = "complete"
            => /\ iteration = cur /\ iteration.state = "started"
               /\ iteration' = [iteration EXCEPT !.state = "completed"]
               /\ pc' = "idle" /\ ~SideEffect
       /\ iteration' # iteration /\ iteration'.state = "completed"
            => pc = "complete"]_vars

C13_Witness ==
  /\ pc = "complete" /\ cur.type = "normal"
  /\ iteration = cur /\ iteration.state = "started"
  /\ \E h \in PingHashes : IsPongIssued(exchanges[h])

\* a phase of the iteration fails
PhaseFails == pc # "idle" /\ (Abort \/ PongLookupFails)

\* C14: when a phase fails (a call throws, or getTransaction returns null
\* for a pong in recovery mode) the stored iteration stays as it is,
\* Started, and no further step of the tick is taken: the remaining phases
\* and the Completed write do not happen
C14_FailedPhaseLeavesStarted ==
  [][/\ PhaseFails => /\ iteration.state = "started"
                      /\ iteration' = iteration
                      /\ pc' = "dead"
     /\ pc = "dead" => ~Tick]_vars

C14_Witness ==
  /\ pc = "dead" /\ iteration # Undefined /\ iteration.state = "started"
  /\ iteration.type = "recovery"
  /\ \E h \in PingHashes : IsCompleted(exchanges[h])

\* C15: after an iteration aborted, leaving its descriptor Started, the run
\* loop eventually makes a next tick, whose planner enters RecoveryStart
\* (the tick then begins with the mempool scan)
C15_AbortedTickIsFollowedByRecovery ==
  (pc = "dead" /\ iteration # Undefined /\ iteration.state = "started")
    ~> (pc = "mempool" /\ iteration.type = "recovery_start")

\* the phases of iterate(), by the position of the executor
PhaseOf(p) ==
  CASE p = "mempool" -> "processMempool"
    [] p = "pongs" -> "processPongs"
    [] p = "pings" -> "processPings"
    [] p = "cleanup" -> "cleanup"
    [] p \in {"answer", "answer_submit", "answer_store"} -> "answerPendingPings"
    [] p \in {"stale", "stale_item", "stale_store"} -> "processStalePongs"
    [] OTHER -> "none"
Running(type) == pc \notin {"idle", "dead"} /\ cur.type = type

\* C16: a Normal iteration over fromBlock..toBlock runs processPongs(from,
\* to, false), processPings(from, to), cleanup, answerPendingPings and
\* processStalePongs, each once, in this order, each after the one before
\* it has finished, then completes; it never runs the mempool scan
C16_NormalIterationPhases ==
  [][Tick =>
       /\ pc = "idle" /\ pc' # "idle" /\ cur'.type = "normal"
            => pc' = "pongs"
       /\ Running("normal") =>
            /\ PhaseOf(pc) # "processMempool"
            /\ pc = "pongs" =>
                 /\ exchanges' = processPongs(exchanges, txs,
                        getPongs(txs, cur.fromBlock, cur.toBlock), FALSE)
                 /\ pc' = "pings"
            /\ pc = "pings" =>
                 /\ exchanges' = processPings(exchanges,
                        getPings(pingBlock, cur.fromBlock, cur.toBlock))
                 /\ pc' = "cleanup"
            /\ pc = "cleanup" => pc' = "answer"
            /\ PhaseOf(pc) = "answerPendingPings" =>
                 \/ PhaseOf(pc') = "answerPendingPings" /\ pc' # "answer"
                 \/ pc' = "stale"
            /\ PhaseOf(pc) = "processStalePongs" =>
                 \/ PhaseOf(pc') = "processStalePongs" /\ pc' # "stale"
                 \/ pc' = "complete"
            /\ pc = "complete" => pc' = "idle"]_vars

C16_Witness ==
  /\ Running("normal") /\ pc = "stale_store"
  /\ scanned = STARTING_BLOCK..cur.toBlock

\* C17: RecoveryStart runs only the mempool scan, Recovery only
\* processPongs(from, to, true), processPings(from, to) and cleanup,
\* RecoveryEnd only answerPendingPings; so no transaction is sent (no pong,
\* no fee bump) during a RecoveryStart or a Recovery iteration
C17_RecoveryIterationPhases ==
  [][Tick =>
       /\ Running("recovery_start")
            => PhaseOf(pc) \in {"processMempool", "none"}
       /\ Running("recovery")
            => /\ PhaseOf(pc) \in {"processPongs", "processPings", "cleanup",
                                   "none"}
               /\ pc = "pongs" =>
                    exchanges' = processPongs(exchanges, txs,
                       getPongs(txs, cur.fromBlock, cur.toBlock), TRUE)
               /\ pc = "pings" =>
                    exchanges' = processPings(exchanges,
                       getPings(pingBlock, cur.fromBlock, cur.toBlock))
       /\ Running("recovery_end")
            => PhaseOf(pc) \in {"answerPendingPings", "none"}
       /\ txs' # txs => cur.type \in {"normal", "recovery_end"}]_vars

C17_Witness ==
  /\ Running("recovery") /\ pc = "complete"
  /\ \E h \in PingHashes : IsDetected(exchanges[h])
  /\ txs = <<>>

\* C18: a tick whose planner returns Skip runs no phase, writes no
\* exchange, sends nothing and leaves the stored iteration as it is, so
\* that the next tick plans from the same previous iteration
C18_SkipChangesNothing ==
  [][Tick /\ pc = "idle" /\ planIteration(iteration, head) = Null
       => /\ iteration' = iteration
          /\ exchanges' = exchanges
          /\ txs' = txs
          /\ pc' = "idle"]_vars

C18_Witness ==
  /\ pc = "idle" /\ iteration # Undefined /\ iteration.state = "completed"
  /\ planIteration(iteration, head) = Null
  /\ head - CONFIRMATION_BLOCKS = iteration.toBlock + 1
  /\ \E h \in PingHashes : IsPongIssued(exchanges[h])

(***************************************************************************)
(* processPongs (under SpecPongs)                                          *)
(***************************************************************************)
\* the Pong(h) transactions whose logs lie in the range of the iteration
Observed(h) ==
  { i \in TxHashes(txs) : /\ txs[i].ping = h
                          /\ txs[i].block >= cur.fromBlock
                          /\ txs[i].block <= cur.toBlock }
PongsStep(type) == pc = "pongs" /\ cur.type = type /\ pc' = "pings"

\* C19: in normal mode the exchange of a ping becomes Completed, with the
\* pongBlock of the observed Pong and its other fields kept, exactly when
\* the stored record is PongIssued and its pongHash is the hash of an
\* observed Pong of that ping; an absent, Detected or Completed record, or
\* a PongIssued one with another pongHash, is left as it is
C19_NormalModeCompletesOwnPong ==
  [][PongsStep("normal") =>
       \A h \in PingHashes :
         LET stored == exchanges[h]
         IN  IF IsPongIssued(stored) /\ stored.pongHash \in Observed(h)
               THEN exchanges'[h] =
                      [k \in DOMAIN stored \cup {"pongBlock"} |->
                         CASE k = "state" -> "completed"
                           [] k = "pongBlock" -> txs[stored.pongHash].block
                           [] OTHER -> stored[k]]
               ELSE exchanges'[h] = stored]_vars

C19_Witness ==
  /\ pc = "pings" /\ cur.type = "normal"
  /\ \E h \in PingHashes :
       /\ IsCompleted(exchanges[h])
       /\ exchanges[h].pongBlock = PongsTo
       /\ txs[exchanges[h].pongHash].block = PongsTo
       /\ "pongTimestamp" \in DOMAIN exchanges[h]
       /\ \E i \in Observed(h) : i # exchanges[h].pongHash

\* the fields processPongs sets in recovery mode
RecoveredFields == {"state", "pingHash", "pongHash", "pongBlock", "pongNonce"}

\* C20: in recovery mode, a ping with an observed Pong sent by the wallet
\* gets a Completed record with the pongHash and pongBlock of that Pong
\* (the last one in log order) and pongNonce = tx.nonce, every other field
\* stored before being kept, whatever the record was; a ping whose observed
\* Pongs all have another sender keeps its record, or none
C20_RecoveryModeTrustsSender ==
  [][PongsStep("recovery") =>
       \A h \in PingHashes :
         LET stored == exchanges[h]
             before == IF stored = Undefined THEN {} ELSE DOMAIN stored
             mine == { i \in Observed(h) : txs[i].from = MyAddress }
             last == CHOOSE i \in mine : \A j \in mine :
                       \/ txs[j].block < txs[i].block
                       \/ txs[j].block = txs[i].block /\ j <= i
             after == exchanges'[h]
         IN  IF mine = {}
               THEN after = stored
               ELSE /\ DOMAIN after = before \cup RecoveredFields
                    /\ after.state = "completed"
                    /\ after.pingHash = h
                    /\ after.pongHash = last
                    /\ after.pongBlock = txs[last].block
                    /\ after.pongNonce = txs[last].nonce
                    /\ \A k \in before \ RecoveredFields :
                         after[k] = stored[k]]_vars

C20_Witness ==
  /\ pc = "pings" /\ cur.type = "recovery"
  /\ \E h \in PingHashes :
       /\ IsCompleted(exchanges[h])
       /\ exchanges[h].pongBlock = PongsTo
       /\ txs[exchanges[h].pongHash].from = MyAddress
       /\ exchanges[h].pongNonce = txs[exchanges[h].pongHash].nonce
       /\ "pingBlock" \in DOMAIN exchanges[h]
       /\ \E i \in Observed(h) : txs[i].from # MyAddress

(***************************************************************************)
(* processPings (under SpecPings)                                          *)
(***************************************************************************)
\* the Ping of h lies in the range of the iteration
PingInRange(h) ==
  pingBlock[h] >= cur.fromBlock /\ pingBlock[h] <= cur.toBlock

\* C21: processPings writes a Detected record, with the hash and the block
\* of the Ping, for a ping of the range that has no record, and leaves
\* every record there is (Detected, PongIssued or Completed) and every ping
\* outside the range as it is; going over the same range a second time
\* changes nothing more
C21_ProcessPingsIsIdempotent ==
  [][pc = "pings" /\ pc' = "cleanup" =>
       /\ \A h \in PingHashes :
            exchanges'[h] =
              IF exchanges[h] = Undefined /\ PingInRange(h)
                THEN [state |-> "detected", pingHash |-> h,
                      pingBlock |-> pingBlock[h]]
                ELSE exchanges[h]
       /\ processPings(exchanges',
                       getPings(pingBlock, cur.fromBlock, cur.toBlock))
            = exchanges']_vars

C21_Witness ==
  /\ pc = "cleanup"
  /\ \E h \in PingHashes :
       /\ PingInRange(h)
       /\ IsPongIssued(exchanges[h])
       /\ exchanges[h].pingBlock # pingBlock[h]

(***************************************************************************)
(* The store (under SpecStorage)                                           *)
(***************************************************************************)
\* C22: putPingDetected called for a ping whose record is PongIssued or
\* Completed leaves that record in the state it has
C22_PutPingDetectedRefusesDowngrade ==
  [][CallPutPingDetected =>
       \A h \in StoreKeys :
         IsPongIssued(exchanges[h]) \/ IsCompleted(exchanges[h])
           => exchanges'[h].state = exchanges[h].state]_vars

\* C24: removeCompletedExchanges (cleanup) deletes the Completed records
\* and nothing else: afterwards no record is Completed, every Detected or
\* PongIssued record and every absent key is as before, and the list
\* returned holds the removed records, each once, and no other
C24_CleanupRemovesExactlyCompleted ==
  [][CallRemoveCompletedExchanges =>
       /\ \A h \in StoreKeys :
            /\ ~IsCompleted(exchanges'[h])
            /\ ~IsCompleted(exchanges[h]) => exchanges'[h] = exchanges[h]
            /\ exchanges'[h] # exchanges[h]
                 => \E i \in 1..Len(removed') : removed'[i] = exchanges[h]
       /\ \A i \in 1..Len(removed') :
            /\ IsCompleted(removed'[i])
            /\ exchanges[removed'[i].pingHash] = removed'[i]
            /\ exchanges'[removed'[i].pingHash] = Undefined
            /\ \A j \in 1..Len(removed') :
                 removed'[j].pingHash = removed'[i].pingHash => i = j]_vars

C24_Witness ==
  /\ pc = "returned"
  /\ Len(removed) >= 1
  /\ \A i \in 1..Len(removed) : exchanges[removed[i].pingHash] = Undefined
  /\ \E h \in StoreKeys : IsPongIssued(exchanges[h])

(***************************************************************************)
(* answerPendingPings (under SpecAnswer)                                   *)
(***************************************************************************)
\* C25: with Detected exchanges in the store the wallet's nonce is read
\* once, by the call itself (n0); every pong is submitted with the local
\* nonce, which starts at n0 and grows by one with each exchange, without
\* a further read, and that nonce is the pongNonce stored with the pong's
\* hash; with no Detected exchange nothing is read and nothing is sent
C25_OneNonceReadConsecutiveNonces ==
  [][/\ Answer =>
          IF getPingDetectedExchanges(exchanges) = <<>>
            THEN nonceReads' = 0 /\ txs' = txs /\ pc' # "answer_submit"
            ELSE /\ nonceReads' = 1
                 /\ nonce' = getNonce(txs)
                 /\ todo' = getPingDetectedExchanges(exchanges)
     /\ AnswerSubmit =>
          /\ nonceReads' = 1
          /\ Len(txs') = Len(txs) + 1
          /\ txs'[Len(txs')].ping = Head(todo).pingHash
          /\ txs'[Len(txs')].nonce = nonce
          /\ nonce' = nonce
     /\ AnswerStore =>
          LET h == Head(todo).pingHash
          IN  /\ IsPongIssued(exchanges'[h])
              /\ exchanges'[h].pongHash = Len(txs)
              /\ exchanges'[h].pongNonce = nonce
              /\ txs[Len(txs)].nonce = nonce
              /\ nonce' = nonce + 1]_vars

\* the pongs of the wallet whose hash is not in the record of their ping
Unstored ==
  { i \in TxHashes(txs) :
      /\ txs[i].from = MyAddress
      /\ ~(/\ IsPongIssued(exchanges[txs[i].ping])
           /\ exchanges[txs[i].ping].pongHash = i) }

\* C26: a pong is submitted only when the pong submitted before it in the
\* loop has been stored, and the step that follows a submission is the
\* putPongIssued write of that pong's hash under its ping, which sends
\* nothing; so the loop never has more than one pong of its own that is
\* submitted and not stored, wherever it is interrupted
C26_PongStoredBeforeNextSubmission ==
  [][/\ AnswerSubmit =>
          /\ sub = Undefined
          /\ Unstored' = Unstored \cup {Len(txs')}
          /\ sub'.pongHash = Len(txs')
          /\ pc' = "answer_store"
     /\ pc = "answer_store" /\ Tick =>
          /\ txs' = txs
          /\ IsPongIssued(exchanges'[sub.pingHash])
          /\ exchanges'[sub.pingHash].pongHash = Len(txs)
          /\ Unstored' = Unstored \ {Len(txs)}
          /\ sub' = Undefined
     /\ sub # Undefined => pc = "answer_store"]_vars

C26_Witness ==
  /\ pc = "answer_store" /\ Len(todo) = 1
  /\ sub.pongHash = Len(txs)
  /\ Unstored = {Len(txs)}
  /\ \E h \in StoreKeys :
       /\ IsPongIssued(exchanges[h])
       /\ exchanges[h].pongHash = Len(txs) - 1
       /\ txs[Len(txs) - 1].ping = h
       /\ exchanges[h].pongNonce = txs[Len(txs)].nonce - 1

(***************************************************************************)
(* processMempool (under SpecMempool)                                      *)
(***************************************************************************)
\* C27: after the mempool scan, every ping with a pong in what the
\* gateway's sweep returned has a PongIssued record made of the pingHash,
\* pingBlock, pongHash and pongNonce returned for it (of the last one, when
\* there are several) and the time of the write, whatever was stored
\* before; every other key is as before, and when the sweep returns
\* nothing the store is not written
C27_MempoolPongsAreStored ==
  [][pc = "mempool" /\ pc' = "complete" =>
       LET pongs == getMyMempoolPongs(txs, pingBlock)
       IN  /\ \A h \in StoreKeys :
                LET mine == { k \in 1..Len(pongs) : pongs[k].pingHash = h }
                    last == CHOOSE k \in mine : \A j \in mine : j <= k
                IN  exchanges'[h] =
                      IF mine = {} THEN exchanges[h]
                      ELSE [state |-> "pong_issued", pingHash |-> h,
                            pingBlock |-> pongs[last].pingBlock,
                            pongHash |-> pongs[last].pongHash,
                            pongNonce |-> pongs[last].pongNonce,
                            pongTimestamp |-> now]
           /\ \A i \in TxHashes(txs) :
                IsPending(txs[i]) /\ txs[i].from = MyAddress
                  => \E k \in 1..Len(pongs) :
                       /\ pongs[k].pongHash = i
                       /\ pongs[k].pingHash = txs[i].ping
                       /\ pongs[k].pongNonce = txs[i].nonce
           /\ pongs = <<>> => exchanges' = exchanges]_vars

C27_Witness ==
  /\ pc = "complete" /\ cur.type = "recovery_start"
  /\ \E h \in StoreKeys :
       /\ IsPongIssued(exchanges[h])
       /\ exchanges[h].pongTimestamp = now
       /\ exchanges[h].pongHash \in TxHashes(txs)
       /\ IsPending(txs[exchanges[h].pongHash])
       /\ txs[exchanges[h].pongHash].ping = h
       /\ exchanges[h].pongNonce = txs[exchanges[h].pongHash].nonce
  /\ \E i \in TxHashes(txs) : IsPending(txs[i]) /\ txs[i].from # MyAddress

(***************************************************************************)
(* processStalePongs (under SpecStale)                                     *)
(***************************************************************************)
\* the stale exchange processStalePongs is at, and its pong transaction
StaleExchange == Head(todo)
StalePong == txs[StaleExchange.pongHash]
\* no provider has the transaction any more
IsDropped(tx) == tx.block = -1
Aged(e, clock) == clock - e.pongTimestamp >= STALE_PONG_TIMEOUT_MINUTES
\* the step of processStalePongs that follows a reissue, a fee bump
Reissued == pc = "stale_store" /\ sub.pongHash # exchanges[sub.pingHash].pongHash
Bumped == pc = "stale_store" /\ sub.pongHash = exchanges[sub.pingHash].pongHash

\* C28: for a stale exchange whose pong is in no provider's mempool,
\* processStalePongs sends one new pong for the same ping, with the nonce
\* the wallet gives (no hint), replaces no transaction, and then stores the
\* record of that ping as PongIssued with the new pong's hash and
\* pongTimestamp = now, its other fields kept; the exchange is not gone
\* over again in the call
C28_DroppedPongIsReissued ==
  [][/\ StaleItem /\ IsDropped(StalePong) =>
          /\ txs' = Append(txs, txs'[Len(txs')])
          /\ txs'[Len(txs')].ping = StaleExchange.pingHash
          /\ txs'[Len(txs')].from = MyAddress
          /\ txs'[Len(txs')].nonce = getNonce(txs)
          /\ IsPending(txs'[Len(txs')])
          /\ exchanges' = exchanges
          /\ pc' = "stale_store" /\ todo' = todo
     /\ Reissued /\ Tick =>
          /\ exchanges' =
               [exchanges EXCEPT ![StaleExchange.pingHash] =
                  [StaleExchange EXCEPT !.pongHash = Len(txs),
                                        !.pongTimestamp = now]]
          /\ IsDropped(StalePong)
          /\ txs[Len(txs)].ping = StaleExchange.pingHash
          /\ txs' = txs
          /\ todo' = Tail(todo)]_vars

C28_Witness ==
  /\ pc = "complete" /\ Len(txs) = MaxKeys + 1
  /\ \E h \in StoreKeys :
       /\ IsPongIssued(exchanges[h])
       /\ exchanges[h].pongHash = Len(txs)
       /\ exchanges[h].pongTimestamp = now
       /\ IsDropped(txs[h])
       /\ txs[Len(txs)].ping = h /\ IsPending(txs[Len(txs)])

\* C29: for a stale exchange whose pong is found and is mined, or is
\* pending with fees that calculateTransactionBumpFees finds sufficient,
\* processStalePongs sends nothing and writes nothing; and a PongIssued
\* exchange younger than STALE_PONG_TIMEOUT_MINUTES is not among the
\* exchanges gone over, its record is not written and no transaction is
\* sent for its ping
C29_SettledOrYoungPongIsLeftAlone ==
  [][Tick =>
       /\ pc = "stale_item" /\ ~IsDropped(StalePong)
            /\ (IsMined(StalePong)
                 \/ calculateTransactionBumpFees(StalePong, feeData) = Null)
            => /\ txs' = txs
               /\ exchanges' = exchanges
               /\ sub' = sub /\ pc' # "stale_store"
               /\ todo' = Tail(todo)
       /\ \A h \in StoreKeys :
            IsPongIssued(exchanges[h]) /\ ~Aged(exchanges[h], now)
              => /\ exchanges'[h] = exchanges[h]
                 /\ \A k \in 1..Len(todo') : todo'[k].pingHash # h
                 /\ \A i \in TxHashes(txs') :
                      txs'[i].ping = h => i \in TxHashes(txs) /\ txs'[i] = txs[i]]_vars

C29_Witness ==
  /\ pc = "complete" /\ feeData # Null
  /\ txs \in IssuedTxs
  /\ \E g, h \in StoreKeys :
       /\ IsPongIssued(exchanges[g]) /\ Aged(exchanges[g], now)
       /\ IsMined(txs[g])
       /\ IsPongIssued(exchanges[h]) /\ ~Aged(exchanges[h], now)
       /\ IsDropped(txs[h])

BotStep == Tick \/ PongLookupFails

\* C23: no step of the bot (processPings, processPongs in either mode,
\* answerPendingPings, processStalePongs, the mempool scan) rewrites a
\* Completed record as PongIssued or Detected, or a PongIssued record as
\* Detected
C23_ExchangeStateOnlyMovesForward ==
  [][BotStep =>
       \A h \in PingHashes :
         /\ IsCompleted(exchanges[h])
              => ~IsPongIssued(exchanges'[h]) /\ ~IsDetected(exchanges'[h])
         /\ IsPongIssued(exchanges[h]) => ~IsDetected(exchanges'[h])]_vars

\* the fees asked of the network and the fees of the pending transaction
FeesOf(maxFee, priorityFee) ==
  [maxFeePerGas |-> maxFee, maxPriorityFeePerGas |-> priorityFee]

\* the reference: null when both fees of the transaction are enough, else
\* the higher priority fee and the highest of three maximum fees; the
\* quotients are those of bigints
BumpReference(txMax, txPriority, currentMax, currentPriority) ==
  IF txMax >= currentMax /\ txPriority >= currentPriority THEN Null
  ELSE LET newPriority == Max(currentPriority, txPriority)
           newMax ==
             Max(Max(2 * BigIntDiv(currentMax - currentPriority, 2) + newPriority,
                     txMax + BigIntDiv(txMax * 10 + 99, 100)),
                 currentMax)
       IN  FeesOf(newMax, newPriority)

\* C31: for all non-negative fees of the transaction and of the network (up
\* to MaxFee), calculateTransactionBumpFees returns the reference: null iff
\* tx.maxFee >= current.maxFee and tx.priorityFee >= current.priorityFee,
\* otherwise newPriority = max(current.priorityFee, tx.priorityFee) and
\* newMax = max(2*((current.maxFee - current.priorityFee) div 2) +
\* newPriority, tx.maxFee + (tx.maxFee*10 + 99) div 100, current.maxFee);
\* a transaction with (11, 3) against (12, 6) gets (13, 6).
C31_BumpFeesEqualReference ==
  pc = "returned" =>
    /\ sub = BumpReference(txs[1].maxFeePerGas, txs[1].maxPriorityFeePerGas,
                           feeData.maxFeePerGas, feeData.maxPriorityFeePerGas)
    /\ (sub = Null) <=>
         /\ txs[1].maxFeePerGas >= feeData.maxFeePerGas
         /\ txs[1].maxPriorityFeePerGas >= feeData.maxPriorityFeePerGas
    /\ ( /\ FeesOf(txs[1].maxFeePerGas, txs[1].maxPriorityFeePerGas)
              = FeesOf(11, 3)
         /\ feeData = FeesOf(12, 6) ) => sub = FeesOf(13, 6)

\* the call returned the fees of the example, where the 10% rounded up
\* decides the maximum fee
C31_Witness ==
  /\ pc = "returned"
  /\ txs[1].maxFeePerGas = 11 /\ txs[1].maxPriorityFeePerGas = 3
  /\ feeData = FeesOf(12, 6)
  /\ sub = FeesOf(13, 6)

\* a promise returned by stop() is waiting for the run loop
StopPending ==
  /\ proc.onReadyToClose # 0
  /\ proc.shutdowns[proc.onReadyToClose].at = "stop"

\* the bot sleeps between two iterations: the timer is armed
Sleeping == pc = "idle" /\ proc.nextIteration

\* C32: after stop() is called, with an iteration in flight or with the bot
\* sleeping between iterations, the iteration in flight finishes (the
\* promise resolves when iterate() returns, not before) and no further
\* iteration starts before the promise of stop() resolves.
C32_StopStartsNoFurtherIteration ==
  [][/\ Plan => ~(Sleeping /\ StopPending)
     /\ (StopPending /\ ~StopPending'
           /\ proc'.onReadyToClose = proc.onReadyToClose)
          => (Complete \/ Plan) /\ pc' = "stopped"]_vars

\* an exception has escaped iterate(): start() has rejected
Faulted == pc = "dead"

\* a signal was delivered and no call has failed
SignalledOnly == Signals(proc) # {} /\ faults = 0

\* C33: after an unhandled fault (an exception escaping iterate()) the
\* process eventually closes the store and exits with code 1; after a
\* shutdown signal it eventually exits with code 0.
C33_FaultExitsOneSignalExitsZero ==
  /\ Faulted ~> (proc.storage = "closed" /\ proc.exit = 1)
  /\ SignalledOnly ~> (proc.exit = 0 \/ faults > 0)

\* processPongs run once more over the range of the iteration under way,
\* with the chain as it is
PongsAgain ==
  processPongs(exchanges, txs, getPongs(txs, cur.fromBlock, cur.toBlock),
               cur.type = "recovery")

\* C34: processPongs run twice in a row over the same block range, with the
\* same chain, leaves the store as one run leaves it, in normal mode and in
\* recovery mode, whatever the records were before (absent, Detected,
\* PongIssued with the hash of the Pong or another, Completed).
C34_ProcessPongsIsIdempotent ==
  (pc = "pings" /\ cur.type \in {"normal", "recovery"}) =>
    PongsAgain = exchanges

\* a run has completed an exchange that was PongIssued on a Pong of the
\* wallet mined in the last block of the range, with two Pong logs on the
\* chain
C34_Witness ==
  /\ pc = "pings"
  /\ Len(txs) = MaxLogs
  /\ \E h \in PingHashes :
       /\ IsCompleted(exchanges[h])
       /\ "pongTimestamp" \in DOMAIN exchanges[h]
       /\ exchanges[h].pongBlock = PongsTo
       /\ \E i \in TxHashes(txs) :
            /\ i = exchanges[h].pongHash
            /\ txs[i].from = MyAddress /\ txs[i].block = PongsTo

\* the records a step has written as Completed
WrittenCompleted ==
  { h \in PingHashes :
      IsCompleted(exchanges'[h]) /\ exchanges'[h] # exchanges[h] }

\* C35: whenever a Completed record is written, its pongBlock is at most the
\* chain head at that moment less CONFIRMATION_BLOCKS (the head never goes
\* back, and getPongs returns only logs of the range asked for).
C35_CompletedPongIsConfirmed ==
  [][\A h \in WrittenCompleted :
       exchanges'[h].pongBlock <= head - CONFIRMATION_BLOCKS]_vars

\* processPongs has just completed an exchange whose Pong sits in the last
\* confirmed block
C35_Witness ==
  /\ pc = "pings"
  /\ \E h \in PingHashes :
       /\ IsCompleted(exchanges[h])
       /\ exchanges[h].pongBlock = head - CONFIRMATION_BLOCKS
       /\ txs[exchanges[h].pongHash].block = exchanges[h].pongBlock

\* an iteration of the given type is under way
Under(type) == cur # Undefined /\ cur.type = type

\* the RecoveryStart iteration has completed
RecoveryStartCompleted ==
  /\ pc = "idle" /\ iteration # Undefined
  /\ iteration.type = "recovery_start" /\ iteration.state = "completed"

\* the RecoveryEnd iteration has answered: no exchange is left Detected
RecoveryEndAnswered ==
  /\ Under("recovery_end") /\ pc = "complete"
  /\ \A h \in PingHashes : ~IsDetected(exchanges[h])

\* C36: once a RecoveryStart iteration has completed, with the chain head
\* advancing and no iteration aborting, the bot eventually plans a Normal
\* iteration: it does not stay in Recovery or Skip.  The way there is
\* through RecoveryEnd: RecoveryEnd is planned only after Recovery
\* iterations have scanned every block up to recoveryUntilBlock at least,
\* it completes with no exchange left Detected, and the first Normal
\* iteration is planned right after it.
C36_RecoveryEndsAndNormalFollows ==
  /\ RecoveryStartCompleted ~> Under("normal")
  /\ [][/\ (Plan /\ Under("recovery_end")')
              => /\ iteration.type = "recovery"
                 /\ iteration.toBlock >= iteration.recoveryUntilBlock
                 /\ \A b \in STARTING_BLOCK..iteration.recoveryUntilBlock :
                      b \in scanned
        /\ (Complete /\ Under("recovery_end")) => RecoveryEndAnswered
        /\ (Plan /\ Under("normal")')
              => /\ iteration.state = "completed"
                 /\ iteration.type \in {"recovery_end", "normal"}]_vars

\* the RecoveryEnd iteration has answered a ping that recovery had left
\* Detected
C36_Witness ==
  /\ RecoveryEndAnswered
  /\ \E h \in PingHashes : IsPongIssued(exchanges[h])

\* a phase of an iteration is executing, or iterate() is about to run
LoopAlive == pc # "stopped" /\ pc # "dead"

\* C37: the store is closed only after the promise returned by bot.stop()
\* has resolved, so storage.close() never runs while a phase of an iteration
\* is executing, however signals (repeated ones too) and fault events
\* interleave with the run loop.
C37_StoreClosedOnlyAfterStop ==
  [][/\ CloseStorage =>
          /\ pc = "stopped"
          /\ \E k \in DOMAIN proc.shutdowns :
               proc.shutdowns[k].at = "close" /\ proc'.shutdowns[k].at = "exit"
     /\ proc'.storage = "closed" => ~LoopAlive']_vars

\* the store was closed after two signals, once the iteration they found in
\* flight had completed
C37_Witness ==
  /\ proc.storage = "closed"
  /\ Cardinality(Signals(proc)) = MaxSignals
  /\ pc = "stopped"
  /\ iteration # Undefined /\ iteration.state = "completed"
  /\ iteration.type = "recovery"

\* the transactions the bot has submitted for a ping, and the last of them
SubmittedFor(h) ==
  { i \in TxHashes(txs) : txs[i].ping = h /\ txs[i].from = MyAddress }
LastSubmitted(h) ==
  CHOOSE i \in SubmittedFor(h) : \A j \in SubmittedFor(h) : j <= i

\* the record of the ping is not between a submission and its write
Settled(h) == sub = Undefined \/ sub.pingHash # h

\* C38: the pongHash of every PongIssued record is the hash of the last
\* transaction the bot submitted for that ping, after a fee bump (which
\* sends a replacement) as well, so that normal-mode processPongs completes
\* the exchange when the replacement is mined.
C38_PongHashIsLastSubmission ==
  \A h \in DOMAIN exchanges :
    (IsPongIssued(exchanges[h]) /\ Settled(h)) =>
      /\ SubmittedFor(h) # {}
      /\ exchanges[h].pongHash = LastSubmitted(h)

\* C39: the pongNonce of every PongIssued record is the nonce of the
\* transaction its pongHash names, after processStalePongs has reissued a
\* dropped pong with a nonce fetched anew as well.
C39_PongNonceIsNonceOfPongHash ==
  \A h \in DOMAIN exchanges :
    (IsPongIssued(exchanges[h]) /\ exchanges[h].pongHash \in TxHashes(txs)) =>
      exchanges[h].pongNonce = txs[exchanges[h].pongHash].nonce

\* the stored descriptor says the last iteration completed
DescriptorCompleted == iteration # Undefined /\ iteration.state = "completed"

NoCompletedRecord == \A h \in DOMAIN exchanges : ~IsCompleted(exchanges[h])

\* C40 as stated: whenever the stored iteration descriptor has state
\* Completed, the store holds no Completed record: such records live only
\* between processPongs and the cleanup of the same iteration.
C40_NoCompletedRecordAtTickBoundary ==
  DescriptorCompleted => NoCompletedRecord

\* C40, amended: whenever the stored descriptor has state Completed and is
\* not of a RecoveryStart iteration, the store holds no Completed record.
\* (A record completed by an iteration that failed before its cleanup
\* outlives it, through RecoveryStart, until the cleanup of the next
\* Recovery iteration.)
C40_NoCompletedRecordAfterCleanup ==
  (DescriptorCompleted /\ iteration.type # "recovery_start") =>
    NoCompletedRecord

\* a Normal iteration has completed, and the exchange whose Pong was mined
\* in its range is gone from the store
C40_Witness ==
  /\ DescriptorCompleted /\ iteration.type = "normal" /\ pc = "idle"
  /\ \E h \in PingHashes :
       /\ pingBlock[h] # 0
       /\ exchanges[h] = Undefined
       /\ \E i \in SubmittedFor(h) :
            /\ txs[i].block >= iteration.fromBlock
            /\ txs[i].block <= iteration.toBlock

====
